---- MODULE Spec2Model ----
(***************************************************************************)
(* Model of the cost-basis accounting core of the portfolio tracker:       *)
(*   - the FIFO lot ledger            (backend/app/services/fifo.py)       *)
(*   - position keys, quote resolution, price cache and the holdings       *)
(*     aggregator                     (backend/app/services/portfolio.py)  *)
(*   - the regional exchange client   (backend/app/services/euronext.py)   *)
(*                                                                         *)
(* Numbers.  Python floats are modelled as exact rationals <<n, d>>, d > 0,*)
(* in lowest terms.  Quantities live on a grid whose unit is 5e-7, so the  *)
(* 1e-6 oversell threshold of the ledger is 2 grid units and the 1e-12     *)
(* quantity epsilon is below the grid (0 grid units).                      *)
(*                                                                         *)
(* Text.  Python strings are sequences of one-character strings, so that   *)
(* strip(), upper(), split() and the regular expressions of the source are *)
(* computed character by character.                                        *)
(***************************************************************************)
EXTENDS Integers, Sequences, FiniteSets, TLC

(***************************************************************************)
(* Exact rational arithmetic (the model of float).                         *)
(***************************************************************************)
Abs(x) == IF x < 0 THEN -x ELSE x

RECURSIVE GCD(_, _)
GCD(a, b) == IF b = 0 THEN a ELSE GCD(b, a % b)

RNorm(n, d) ==
    LET g == GCD(Abs(n), Abs(d))
        s == IF d < 0 THEN -1 ELSE 1
    IN  <<(s * n) \div g, (s * d) \div g>>

R(n) == <<n, 1>>
RZero == R(0)
RAdd(a, b) == RNorm(a[1] * b[2] + b[1] * a[2], a[2] * b[2])
RSub(a, b) == RNorm(a[1] * b[2] - b[1] * a[2], a[2] * b[2])
RMul(a, b) == RNorm(a[1] * b[1], a[2] * b[2])
RDiv(a, b) == RNorm(a[1] * b[2], a[2] * b[1])
RLt(a, b) == a[1] * b[2] < b[1] * a[2]
RLe(a, b) == a[1] * b[2] <= b[1] * a[2]
RGt(a, b) == RLt(b, a)

(***************************************************************************)
(* Bounds of the model.                                                    *)
(***************************************************************************)
MaxOps == 3
MaxQty == 3

(***************************************************************************)
(* Program constants of the ledger, in grid units.                         *)
(***************************************************************************)
QtyEps == 0
OversellEps == 2

(***************************************************************************)
(* Inputs of the ledger operations.                                        *)
(***************************************************************************)
FifoKeys == {"BTC", "ETH"}
Qtys == {R(i) : i \in 0..MaxQty}
Costs == {R(10), R(12)}
Proceeds == {R(18)}
Fees == {R(0), R(2)}
DivAmounts == {R(5)}

VARIABLES
    assets,     \* FIFOPortfolio.assets: key -> [lots, realized_pnl]
    prev,       \* FIFOPortfolio.assets as it was when the last call started
    call,       \* the last ledger call: [op, key, quantity, total, fee]
    ret,        \* what the last ledger call returned
    nops,       \* number of ledger calls made so far
    world,      \* the process-wide caches and the settings row (record w below)
    txs,        \* the transactions table, in (trade_date, id) order
    memo,       \* portfolio._cache: the memoized result of compute_holdings
    last,       \* the last request served: what was asked and what came back
    nreq,       \* number of requests served so far
    hist,       \* history: what resolutions learned and what mutations dropped
    threads     \* the requests in progress: per worker thread, where it is
                \* in its handler and what it holds in its local variables

fifoVars == <<assets, prev, call, ret, nops>>
appVars == <<world, txs, memo, last, nreq, hist, threads>>
vars == <<assets, prev, call, ret, nops, world, txs, memo, last, nreq, hist, threads>>

\* The worker threads of the server, and a thread that serves no request.
Workers == {"w1", "w2"}

Idle == [pc |-> "idle", clean |-> FALSE, held |-> <<>>]

(***************************************************************************)
(* The FIFO lot ledger.                                                    *)
(***************************************************************************)
EmptyAssetState == [lots |-> <<>>, realized_pnl |-> RZero]

NoAssets == [k \in {} |-> EmptyAssetState]

GetState(a, symbol) ==
    IF symbol \in DOMAIN a THEN a ELSE a @@ (symbol :> EmptyAssetState)

Buy(a, symbol, quantity, total_cost_eur) ==
    LET a1 == GetState(a, symbol)
    IN  [a1 EXCEPT ![symbol].lots =
            Append(@, [quantity |-> quantity, cost_basis |-> total_cost_eur])]

\* A plausible slip: strict comparison, so a lot that is exactly used up stays.
LotFullyConsumedStrict(lot, qty_to_sell) ==
    RLt(lot.quantity, RAdd(qty_to_sell, R(QtyEps)))

\* The test that decides between popping the head lot and reducing it.
LotFullyConsumed(lot, qty_to_sell) ==
    RLe(lot.quantity, RAdd(qty_to_sell, R(QtyEps)))

\* The while loop of sell: one iteration per recursion step.
RECURSIVE SellLoop(_, _, _, _, _)
SellLoop(lots, qty_to_sell, realized_pnl, quantity, proceeds_net) ==
    IF RGt(qty_to_sell, R(QtyEps)) /\ lots # <<>>
    THEN LET lot == lots[1]
             full == LotFullyConsumed(lot, qty_to_sell)
             consumed_qty == IF full THEN lot.quantity ELSE qty_to_sell
             lot_cost == IF full THEN lot.cost_basis
                         ELSE RMul(lot.cost_basis, RDiv(consumed_qty, lot.quantity))
             lots1 == IF full THEN Tail(lots)
                      ELSE <<[quantity |-> RSub(lot.quantity, consumed_qty),
                              cost_basis |-> RSub(lot.cost_basis, lot_cost)]>>
                           \o Tail(lots)
             proportional_proceeds ==
                 RMul(proceeds_net, RDiv(consumed_qty, quantity))
         IN  SellLoop(lots1, RSub(qty_to_sell, consumed_qty),
                      RAdd(realized_pnl, RSub(proportional_proceeds, lot_cost)),
                      quantity, proceeds_net)
    ELSE [lots |-> lots, qty_to_sell |-> qty_to_sell, realized_pnl |-> realized_pnl]

\* A plausible slip: the shortfall is realized whatever its size.
SellTailNoThreshold(loop, quantity, proceeds_net) ==
    IF RGt(loop.qty_to_sell, RZero)
    THEN RAdd(loop.realized_pnl,
              RMul(proceeds_net, RDiv(loop.qty_to_sell, quantity)))
    ELSE loop.realized_pnl

\* The oversell branch after the loop.
SellTail(loop, quantity, proceeds_net) ==
    IF RGt(loop.qty_to_sell, R(OversellEps))
    THEN RAdd(loop.realized_pnl,
              RMul(proceeds_net, RDiv(loop.qty_to_sell, quantity)))
    ELSE loop.realized_pnl

\* A plausible slip: the fee is not deducted from the proceeds.
SellIgnoringFee(a, symbol, quantity, total_proceeds_eur, fee_eur) ==
    LET a1 == GetState(a, symbol)
        loop == SellLoop(a1[symbol].lots, quantity, RZero, quantity, total_proceeds_eur)
        realized_pnl == SellTail(loop, quantity, total_proceeds_eur)
    IN  [assets |-> [a1 EXCEPT ![symbol].lots = loop.lots,
                               ![symbol].realized_pnl = RAdd(@, realized_pnl)],
         realized_pnl |-> realized_pnl]

\* A plausible slip: the realized P&L of the sale is returned but not added
\* to the running realized P&L of the position.
SellNotBooked(a, symbol, quantity, total_proceeds_eur, fee_eur) ==
    LET a1 == GetState(a, symbol)
        proceeds_net == RSub(total_proceeds_eur, fee_eur)
        loop == SellLoop(a1[symbol].lots, quantity, RZero, quantity, proceeds_net)
    IN  [assets |-> [a1 EXCEPT ![symbol].lots = loop.lots],
         realized_pnl |-> SellTail(loop, quantity, proceeds_net)]

Sell(a, symbol, quantity, total_proceeds_eur, fee_eur) ==
    LET a1 == GetState(a, symbol)
        proceeds_net == RSub(total_proceeds_eur, fee_eur)
        loop == SellLoop(a1[symbol].lots, quantity, RZero, quantity, proceeds_net)
        realized_pnl == SellTail(loop, quantity, proceeds_net)
    IN  [assets |-> [a1 EXCEPT ![symbol].lots = loop.lots,
                               ![symbol].realized_pnl = RAdd(@, realized_pnl)],
         realized_pnl |-> realized_pnl]

\* A plausible slip: the dividend is not added to the realized P&L of the
\* position.
DividendNotBooked(a, symbol, amount_eur) == GetState(a, symbol)

\* A plausible slip: the dividend is booked as a zero-quantity lot too.
DividendTouchingLots(a, symbol, amount_eur) ==
    LET a1 == GetState(a, symbol)
    IN  [a1 EXCEPT ![symbol].realized_pnl = RAdd(@, amount_eur),
                   ![symbol].lots = Append(@, [quantity |-> RZero, cost_basis |-> RZero])]

Dividend(a, symbol, amount_eur) ==
    LET a1 == GetState(a, symbol)
    IN  [a1 EXCEPT ![symbol].realized_pnl = RAdd(@, amount_eur)]

RECURSIVE SumQty(_)
SumQty(lots) ==
    IF lots = <<>> THEN RZero ELSE RAdd(lots[1].quantity, SumQty(Tail(lots)))

RECURSIVE SumCost(_)
SumCost(lots) ==
    IF lots = <<>> THEN RZero ELSE RAdd(lots[1].cost_basis, SumCost(Tail(lots)))

CurrentPosition(a, symbol) ==
    LET a1 == GetState(a, symbol)
    IN  [assets |-> a1,
         position |-> <<SumQty(a1[symbol].lots), SumCost(a1[symbol].lots)>>]

(***************************************************************************)
(* Ledger actions: one call of one public method each.                     *)
(***************************************************************************)
NoCall == [op |-> "none"]

FifoBuy ==
    /\ nops < MaxOps
    /\ \E k \in FifoKeys, q \in Qtys, c \in Costs :
        /\ assets' = Buy(assets, k, q, c)
        /\ call' = [op |-> "buy", key |-> k, quantity |-> q, total |-> c, fee |-> RZero]
    /\ prev' = assets
    /\ ret' = "none"
    /\ nops' = nops + 1
    /\ UNCHANGED appVars

FifoSell ==
    /\ nops < MaxOps
    /\ \E k \in FifoKeys, q \in Qtys, p \in Proceeds, f \in Fees :
        LET r == Sell(assets, k, q, p, f)
        IN  /\ assets' = r.assets
            /\ ret' = r.realized_pnl
            /\ call' = [op |-> "sell", key |-> k, quantity |-> q, total |-> p, fee |-> f]
    /\ prev' = assets
    /\ nops' = nops + 1
    /\ UNCHANGED appVars

FifoDividend ==
    /\ nops < MaxOps
    /\ \E k \in FifoKeys, amt \in DivAmounts :
        /\ assets' = Dividend(assets, k, amt)
        /\ call' = [op |-> "dividend", key |-> k, quantity |-> RZero,
                    total |-> amt, fee |-> RZero]
    /\ prev' = assets
    /\ ret' = "none"
    /\ nops' = nops + 1
    /\ UNCHANGED appVars

FifoCurrentPosition ==
    /\ nops < MaxOps
    /\ \E k \in FifoKeys :
        LET r == CurrentPosition(assets, k)
        IN  /\ assets' = r.assets
            /\ ret' = r.position
            /\ call' = [op |-> "current_position", key |-> k, quantity |-> RZero,
                        total |-> RZero, fee |-> RZero]
    /\ prev' = assets
    /\ nops' = nops + 1
    /\ UNCHANGED appVars


(***************************************************************************)
(* Text: str.strip, str.upper, str.split and the regular expressions.      *)
(***************************************************************************)
LowerSeq == <<"a", "b", "c", "d", "e", "f", "g", "h", "i", "j", "k", "l", "m", "n", "o", "p", "q", "r", "s", "t", "u", "v", "w", "x", "y", "z">>
UpperSeq == <<"A", "B", "C", "D", "E", "F", "G", "H", "I", "J", "K", "L", "M", "N", "O", "P", "Q", "R", "S", "T", "U", "V", "W", "X", "Y", "Z">>
UpperLetters == {UpperSeq[i] : i \in 1..26}
Digits == {"0", "1", "2", "3", "4", "5", "6", "7", "8", "9"}
UpperAlNum == UpperLetters \cup Digits
Whitespace == {" ", "\t", "\n"}

\* The upper-case letter of each lower-case letter.
ToUpper == [c \in {LowerSeq[i] : i \in 1..26} |->
               UpperSeq[CHOOSE i \in 1..26 : LowerSeq[i] = c]]

UpperChar(c) == IF c \in DOMAIN ToUpper THEN ToUpper[c] ELSE c

Upper(s) == [i \in 1..Len(s) |-> UpperChar(s[i])]

RECURSIVE LStrip(_)
LStrip(s) == IF s # <<>> /\ s[1] \in Whitespace THEN LStrip(Tail(s)) ELSE s

RECURSIVE RStrip(_)
RStrip(s) ==
    IF s # <<>> /\ s[Len(s)] \in Whitespace
    THEN RStrip(SubSeq(s, 1, Len(s) - 1)) ELSE s

Strip(s) == RStrip(LStrip(s))

\* (value or "").strip().upper(); None and "" are both the empty text.
StripUpper(s) == Upper(Strip(s))

AllIn(s, chars) == \A i \in 1..Len(s) : s[i] \in chars

Join3(a, b, c) == a \o <<"-">> \o b \o <<"-">> \o c

\* ^[A-Z]{2}[A-Z0-9]{9}[0-9]$
IsISIN(s) ==
    /\ Len(s) = 12
    /\ s[1] \in UpperLetters /\ s[2] \in UpperLetters
    /\ \A i \in 3..11 : s[i] \in UpperAlNum
    /\ s[12] \in Digits

\* X[A-Z0-9]{3}
IsXMic(s) == Len(s) = 4 /\ s[1] = "X" /\ \A i \in 2..4 : s[i] \in UpperAlNum

\* [A-Z]{2}
IsTwoLetters(s) == Len(s) = 2 /\ AllIn(s, UpperLetters)

PatternSeps == {"-", "_", "/"}

\* Length of the longest prefix of s made of [A-Z0-9].
RECURSIVE AlNumPrefix(_)
AlNumPrefix(s) ==
    IF s # <<>> /\ s[1] \in UpperAlNum THEN 1 + AlNumPrefix(Tail(s)) ELSE 0

NoMatch == [ok |-> FALSE, symbol |-> <<>>, isin |-> <<>>, mic |-> <<>>]

\* (symbol)[-_/](isin) with an optional [-_/](mic) tail; seps is the set of
\* separators and micOk the test of the tail; a missing tail gives mic = <<>>.
MatchSymbolIsinMic(s, seps, micOk(_), micRequired) ==
    LET p == AlNumPrefix(s)
        n == Len(s)
    IN  IF /\ p >= 1 /\ n >= p + 13
           /\ s[p + 1] \in seps
           /\ IsISIN(SubSeq(s, p + 2, p + 13))
        THEN IF n = p + 13
             THEN IF micRequired THEN NoMatch
                  ELSE [ok |-> TRUE, symbol |-> SubSeq(s, 1, p),
                        isin |-> SubSeq(s, p + 2, p + 13), mic |-> <<>>]
             ELSE IF /\ n >= p + 15
                     /\ s[p + 14] \in seps
                     /\ micOk(SubSeq(s, p + 15, n))
                  THEN [ok |-> TRUE, symbol |-> SubSeq(s, 1, p),
                        isin |-> SubSeq(s, p + 2, p + 13),
                        mic |-> SubSeq(s, p + 15, n)]
                  ELSE NoMatch
        ELSE NoMatch

XMicOrTwoLetters(m) == IsXMic(m) \/ IsTwoLetters(m)

EURONEXT_COMBINED_PATTERN(s) ==
    MatchSymbolIsinMic(s, PatternSeps, XMicOrTwoLetters, FALSE)

EURONEXT_ISSUE_PATTERN(s) ==
    MatchSymbolIsinMic(s, PatternSeps, IsXMic, TRUE)

EURONEXT_ISIN_MARKET_PATTERN(s) ==
    IF /\ Len(s) >= 14
       /\ IsISIN(SubSeq(s, 1, 12))
       /\ s[13] \in PatternSeps
       /\ XMicOrTwoLetters(SubSeq(s, 14, Len(s)))
    THEN [ok |-> TRUE, symbol |-> <<>>, isin |-> SubSeq(s, 1, 12),
          mic |-> SubSeq(s, 14, Len(s))]
    ELSE NoMatch

\* euronext._ISSUE_REGEX: the issue triple with "-" as the only separator.
ISSUE_REGEX(s) == MatchSymbolIsinMic(s, {"-"}, IsXMic, TRUE)

EURONEXT_MICS == {<<"X", "P", "A", "R">>, <<"X", "A", "M", "S">>, <<"X", "B", "R", "U">>, <<"X", "L", "I", "S">>, <<"X", "M", "I", "L">>, <<"X", "D", "U", "B">>}

EURONEXT_SUFFIX_TO_MIC ==
    (<<"P", "A">> :> <<"X", "P", "A", "R">>) @@ (<<"P", "A", "R">> :> <<"X", "P", "A", "R">>) @@ (<<"A", "S">> :> <<"X", "A", "M", "S">>) @@
    (<<"A", "M", "S">> :> <<"X", "A", "M", "S">>) @@ (<<"B", "R">> :> <<"X", "B", "R", "U">>) @@ (<<"B", "R", "U">> :> <<"X", "B", "R", "U">>) @@
    (<<"L", "S">> :> <<"X", "L", "I", "S">>) @@ (<<"L", "I", "S">> :> <<"X", "L", "I", "S">>) @@ (<<"M", "I">> :> <<"X", "M", "I", "L">>) @@
    (<<"M", "I", "L">> :> <<"X", "M", "I", "L">>) @@ (<<"I", "R">> :> <<"X", "D", "U", "B">>) @@ (<<"D", "U">> :> <<"X", "D", "U", "B">>)

\* setdefault in insertion order keeps the first suffix of each market.
EURONEXT_MIC_TO_SUFFIX ==
    (<<"X", "P", "A", "R">> :> <<"P", "A">>) @@ (<<"X", "A", "M", "S">> :> <<"A", "S">>) @@ (<<"X", "B", "R", "U">> :> <<"B", "R">>) @@
    (<<"X", "L", "I", "S">> :> <<"L", "S">>) @@ (<<"X", "M", "I", "L">> :> <<"M", "I">>) @@ (<<"X", "D", "U", "B">> :> <<"I", "R">>)

\* dict.get: the empty text stands for None.
MapGet(m, k) == IF k \in DOMAIN m THEN m[k] ELSE <<>>

MapPut(m, k, v) == [x \in DOMAIN m \cup {k} |-> IF x = k THEN v ELSE m[x]]

EmptyMap == [x \in {} |-> <<>>]

NormalizeMic(value) ==
    LET upper == StripUpper(value)
    IN  IF upper \in EURONEXT_MICS THEN upper
        ELSE MapGet(EURONEXT_SUFFIX_TO_MIC, upper)

\* Position of the last occurrence of sep in s, 0 when absent.
LastIndexOf(s, sep) ==
    IF \E i \in 1..Len(s) : s[i] = sep
    THEN CHOOSE i \in 1..Len(s) :
            s[i] = sep /\ \A j \in (i + 1)..Len(s) : s[j] # sep
    ELSE 0

ExtractSeps == <<"-", ".", ":", "@", "/">>

\* _extract_symbol_mic: the first separator, in the order - . : @ /, whose
\* last occurrence splits the text into a base and a known market suffix.
RECURSIVE ExtractSymbolMicFrom(_, _)
ExtractSymbolMicFrom(candidate, k) ==
    IF k > Len(ExtractSeps) THEN [ok |-> FALSE, base |-> <<>>, mic |-> <<>>]
    ELSE LET i == LastIndexOf(candidate, ExtractSeps[k])
             base == StripUpper(SubSeq(candidate, 1, i - 1))
             mic == NormalizeMic(SubSeq(candidate, i + 1, Len(candidate)))
         IN  IF i > 0 /\ base # <<>> /\ mic # <<>>
             THEN [ok |-> TRUE, base |-> base, mic |-> mic]
             ELSE ExtractSymbolMicFrom(candidate, k + 1)

ExtractSymbolMic(candidate) == ExtractSymbolMicFrom(candidate, 1)

(***************************************************************************)
(* Position keys.                                                          *)
(***************************************************************************)
NormalizePortfolioType(value) ==
    LET normalized == StripUpper(value)
    IN  IF normalized # <<>> THEN normalized ELSE <<"P", "E", "A">>

\* A plausible slip: the code is trimmed and its case is kept.
NormalizeSymbolKeepingCase(value) == Strip(value)

NormalizeSymbol(value) == StripUpper(value)

NormalizeAccountId(value) == StripUpper(value)

\* A plausible slip: the account is left out of the key.
MakePortfolioKeyNoAccount(type_portefeuille, symbol, account_id) ==
    <<NormalizePortfolioType(type_portefeuille), NormalizeSymbol(symbol), <<>>>>

MakePortfolioKey(type_portefeuille, symbol, account_id) ==
    <<NormalizePortfolioType(type_portefeuille),
      NormalizeSymbol(symbol),
      NormalizeAccountId(account_id)>>

(***************************************************************************)
(* The outside world of one price lookup.  An environment env gives, for   *)
(* the duration of one call, what each external endpoint answers:          *)
(*   env.eprice[issue]  Euronext live-data endpoint, per issue             *)
(*   env.esearch        Euronext search endpoint                           *)
(*   env.elookup        Euronext listing-by-ISIN endpoint                  *)
(*   env.ysearch        Yahoo search endpoint                              *)
(*   env.yquote         Yahoo quote endpoint                               *)
(*   env.binance        Binance ticker endpoint                            *)
(* An answer is "ok", "http" (status or transport error), "badjson" (a body *)
(* that is not JSON), "empty" (well-formed, no result) or "currency"       *)
(* (Euronext quote in another currency than EUR).                          *)
(***************************************************************************)
ISIN_MC == <<"F", "R", "0", "0", "0", "0", "1", "2", "3", "4", "5", "6">>
ISSUE_MC == <<"M", "C", "-", "F", "R", "0", "0", "0", "0", "1", "2", "3", "4", "5", "6", "-", "X", "P", "A", "R">>
ISSUE_LVMH == <<"L", "V", "M", "H", "-", "F", "R", "0", "0", "0", "0", "1", "2", "3", "4", "5", "6", "-", "X", "P", "A", "R">>

\* What the Euronext search and listing endpoints list when they answer.
EuronextDirectory == <<[symbol |-> <<"M", "C">>, isin |-> ISIN_MC, mic |-> <<"X", "P", "A", "R">>]>>

\* What the Yahoo search endpoint knows: ISIN -> ticker.
YahooSearchDirectory == (ISIN_MC :> <<"M", "C", ".", "P", "A">>)

\* The tickers the Yahoo quote endpoint has a quote for.
YahooQuoted == {<<"M", "C", ".", "P", "A">>, <<"A", "C", "M", "E">>}

EuronextPrice == R(42)
YahooPrice == R(84)
BinancePrice == R(7)

(***************************************************************************)
(* The process-wide caches, gathered in one record w:                      *)
(*   price_cache          portfolio._price_cache                           *)
(*   quote_alias_cache    portfolio._quote_alias_cache ("aliases" entry)   *)
(*   CACHE, SEARCH_CACHE, SYMBOL_SEARCH_CACHE, LOOKUP_CACHE   euronext.py  *)
(*   stored_aliases       the quote-alias row of the settings table        *)
(*   calls                the external requests made by the running call   *)
(*   tried                the regional candidates it tried, with the outcome *)
(* A TTL cache is a map; the passing of its TTL removes entries (the       *)
(* Expire actions below).                                                  *)
(***************************************************************************)
AliasAbsent == [present |-> FALSE, map |-> EmptyMap]

EmptyWorld ==
    [price_cache |-> EmptyMap,
     quote_alias_cache |-> AliasAbsent,
     CACHE |-> EmptyMap,
     SEARCH_CACHE |-> EmptyMap,
     SYMBOL_SEARCH_CACHE |-> EmptyMap,
     LOOKUP_CACHE |-> EmptyMap,
     stored_aliases |-> EmptyMap,
     calls |-> <<>>,
     tried |-> <<>>]

\* The outcome of a function call: the world after it, the exception that
\* left it ("" when it returned) and the value it returned.
Return(w, val) == [w |-> w, exc |-> "", val |-> val]
Raise(w, exc) == [w |-> w, exc |-> exc, val |-> <<>>]

\* One external request: the endpoint, what was asked and whether the answer
\* was one the caller could use.
Logged(w, src, arg, ok) ==
    [w EXCEPT !.calls = Append(@, [src |-> src, arg |-> arg, ok |-> ok])]

LoadQuoteAliases(w) ==
    IF w.quote_alias_cache.present
    THEN Return(w, w.quote_alias_cache.map)
    ELSE LET aliases ==
                 [k \in {StripUpper(raw) : raw \in DOMAIN w.stored_aliases} |->
                     StripUpper(w.stored_aliases[
                         CHOOSE raw \in DOMAIN w.stored_aliases : StripUpper(raw) = k])]
         IN  Return([w EXCEPT !.quote_alias_cache = [present |-> TRUE, map |-> aliases]],
                    aliases)

\* _search_symbol_for_isin: None (the empty text) on an HTTP error or when
\* no quote carries a symbol; resp.json() is inside the try block but only
\* httpx.HTTPError is caught.
SearchSymbolForIsin(w, env, isin) ==
    LET w1 == Logged(w, "yahoo_search", isin, env.ysearch = "ok")
    IN  CASE env.ysearch = "http" -> Return(w1, <<>>)
          [] env.ysearch = "badjson" -> Raise(w1, "ValueError")
          [] env.ysearch = "empty" -> Return(w1, <<>>)
          [] OTHER ->
               IF isin \in DOMAIN YahooSearchDirectory
               THEN Return(w1, StripUpper(YahooSearchDirectory[isin]))
               ELSE Return(w1, <<>>)

(***************************************************************************)
(* euronext.py                                                             *)
(***************************************************************************)
\* The first directory entry accepted by the candidate loop of the searches.
FirstEntry(entries, accept(_)) ==
    IF \E i \in 1..Len(entries) : accept(entries[i])
    THEN [ok |-> TRUE,
          entry |-> entries[CHOOSE i \in 1..Len(entries) :
                        accept(entries[i]) /\ \A j \in 1..(i - 1) : ~ accept(entries[j])]]
    ELSE [ok |-> FALSE]

EuronextSearchByIsin(w, env, isin) ==
    LET normalized == StripUpper(isin)
    IN  IF normalized = <<>> \/ ~ IsISIN(normalized) THEN Raise(w, "EuronextAPIError")
        ELSE IF normalized \in DOMAIN w.SEARCH_CACHE
        THEN Return(w, w.SEARCH_CACHE[normalized])
        ELSE LET w1 == Logged(w, "euronext_search", normalized, env.esearch = "ok")
                 accept(c) == /\ ~ (StripUpper(c.isin) # <<>> /\ StripUpper(c.isin) # normalized)
                              /\ StripUpper(c.symbol) # <<>>
                              /\ StripUpper(c.mic) \in EURONEXT_MICS
                 found == FirstEntry(EuronextDirectory, accept)
             IN  IF env.esearch # "ok" \/ ~ found.ok THEN Raise(w1, "EuronextAPIError")
                 ELSE LET result == <<StripUpper(found.entry.symbol), StripUpper(found.entry.mic)>>
                      IN  Return([w1 EXCEPT !.SEARCH_CACHE = MapPut(@, normalized, result)],
                                 result)

\* mic is the empty text when the caller passes None.
EuronextSearchBySymbol(w, env, symbol, mic) ==
    LET normalized_symbol == StripUpper(symbol)
        normalized_mic == StripUpper(mic)
        cache_key == IF normalized_mic # <<>>
                     THEN normalized_symbol \o <<"-">> \o normalized_mic
                     ELSE normalized_symbol
    IN  IF normalized_symbol = <<>> THEN Raise(w, "EuronextAPIError")
        ELSE IF normalized_mic # <<>> /\ normalized_mic \notin EURONEXT_MICS
        THEN Raise(w, "EuronextAPIError")
        ELSE IF cache_key \in DOMAIN w.SYMBOL_SEARCH_CACHE
        THEN Return(w, w.SYMBOL_SEARCH_CACHE[cache_key])
        ELSE LET w1 == Logged(w, "euronext_search", normalized_symbol, env.esearch = "ok")
                 accept(c) ==
                     /\ StripUpper(c.symbol) = normalized_symbol
                     /\ ~ (normalized_mic # <<>> /\ StripUpper(c.mic) # <<>>
                           /\ StripUpper(c.mic) # normalized_mic)
                     /\ (IF normalized_mic # <<>> /\ StripUpper(c.mic) = <<>>
                         THEN normalized_mic ELSE StripUpper(c.mic)) \in EURONEXT_MICS
                     /\ IsISIN(StripUpper(c.isin))
                 found == FirstEntry(EuronextDirectory, accept)
             IN  IF env.esearch # "ok" \/ ~ found.ok THEN Raise(w1, "EuronextAPIError")
                 ELSE LET cmic == IF normalized_mic # <<>> /\ StripUpper(found.entry.mic) = <<>>
                                  THEN normalized_mic ELSE StripUpper(found.entry.mic)
                          result == <<StripUpper(found.entry.isin), cmic>>
                      IN  Return([w1 EXCEPT !.SYMBOL_SEARCH_CACHE = MapPut(@, cache_key, result)],
                                 result)

EuronextLookupByIsin(w, env, isin) ==
    LET normalized == StripUpper(isin)
    IN  IF normalized = <<>> \/ ~ IsISIN(normalized) THEN Raise(w, "EuronextAPIError")
        ELSE IF normalized \in DOMAIN w.LOOKUP_CACHE
        THEN Return(w, w.LOOKUP_CACHE[normalized])
        ELSE LET w1 == Logged(w, "euronext_lookup", normalized, env.elookup = "ok")
                 accept(c) == /\ StripUpper(c.symbol) # <<>>
                              /\ StripUpper(c.mic) \in EURONEXT_MICS
                 found == FirstEntry(EuronextDirectory, accept)
             IN  IF env.elookup # "ok" \/ ~ found.ok THEN Raise(w1, "EuronextAPIError")
                 ELSE LET result == <<StripUpper(found.entry.symbol), StripUpper(found.entry.mic)>>
                      IN  Return([w1 EXCEPT !.LOOKUP_CACHE = MapPut(@, normalized, result)],
                                 result)

\* The body of the live-data answer, by kind.
EuronextPayload(kind) ==
    CASE kind = "ok" -> [lastPrice |-> <<EuronextPrice>>, currency |-> <<"E", "U", "R">>]
      [] kind = "currency" -> [lastPrice |-> <<EuronextPrice>>, currency |-> <<"u", "s", "d">>]
      [] OTHER -> [lastPrice |-> <<>>, currency |-> <<>>]

\* _extract_price: a missing price or a currency other than EUR is an error.
ExtractPrice(payload) ==
    IF payload.lastPrice = <<>> THEN [exc |-> "EuronextAPIError", val |-> <<>>]
    ELSE IF /\ Strip(payload.currency) # <<>>
            /\ StripUpper(payload.currency) \notin {<<"E", "U", "R">>, <<"E", "U", "R", "O">>}
    THEN [exc |-> "EuronextAPIError", val |-> <<>>]
    ELSE [exc |-> "", val |-> payload.lastPrice[1]]

EuronextAnswer(env, issue) ==
    IF issue \in DOMAIN env.eprice THEN env.eprice[issue] ELSE "empty"

EuronextFetchPrice(w, env, identifier) ==
    LET normalized == StripUpper(identifier)
        m == ISSUE_REGEX(normalized)
    IN  IF normalized = <<>> THEN Raise(w, "EuronextAPIError")
        ELSE IF normalized \in DOMAIN w.CACHE THEN Return(w, w.CACHE[normalized])
        ELSE IF ~ m.ok \/ m.mic \notin EURONEXT_MICS THEN Raise(w, "EuronextAPIError")
        ELSE LET cache_key == Join3(m.symbol, m.isin, m.mic)
                 kind == EuronextAnswer(env, cache_key)
                 price == ExtractPrice(EuronextPayload(kind))
                 w1 == Logged(w, "euronext_price", cache_key,
                              kind \notin {"http", "badjson"} /\ price.exc = "")
             IN  IF kind \in {"http", "badjson"} \/ price.exc # ""
                 THEN Raise(w1, "EuronextAPIError")
                 ELSE Return([w1 EXCEPT !.CACHE =
                                 MapPut(MapPut(@, normalized, price.val), cache_key, price.val)],
                             price.val)

(***************************************************************************)
(* portfolio.py: quote resolution.                                         *)
(***************************************************************************)
\* updated_aliases = dict(aliases); updated_aliases[k] = v for the entries
\* in order; _quote_alias_cache["aliases"] = updated_aliases.
RECURSIVE PutAll(_, _)
PutAll(m, entries) ==
    IF entries = <<>> THEN m
    ELSE PutAll(MapPut(m, entries[1][1], entries[1][2]), Tail(entries))

\* A plausible slip: the updated map is built and not stored.
LearnAliasesNotStored(w, aliases, entries) == w

LearnAliases(w, aliases, entries) ==
    [w EXCEPT !.quote_alias_cache = [present |-> TRUE, map |-> PutAll(aliases, entries)]]

\* The not-an-ISIN branch of resolve_quote_symbol (lines 330-364): the
\* split of the input into symbol and market, then the search with the
\* market, then the search without it.
SymbolMicOf(normalized_input, normalized) ==
    LET sm1 == ExtractSymbolMic(normalized_input)
    IN  IF ~ sm1.ok /\ normalized # normalized_input
        THEN ExtractSymbolMic(normalized) ELSE sm1

\* found is the (isin, mic) pair of a successful search_instrument_by_symbol.
LearnIssueOfSymbol(found, aliases, normalized_input, base) ==
    Return(LearnAliases(found.w, aliases,
                        <<<<normalized_input, Join3(base, found.val[1], found.val[2])>>,
                          <<found.val[1], Join3(base, found.val[1], found.val[2])>>>>),
           Join3(base, found.val[1], found.val[2]))

ResolveBySecondSearch(r2, aliases, normalized_input, base) ==
    IF r2.exc = "" THEN LearnIssueOfSymbol(r2, aliases, normalized_input, base)
    ELSE Return(r2.w, normalized_input)

ResolveByFirstSearch(r1, env, aliases, normalized_input, base) ==
    IF r1.exc = "" THEN LearnIssueOfSymbol(r1, aliases, normalized_input, base)
    ELSE ResolveBySecondSearch(EuronextSearchBySymbol(r1.w, env, base, <<>>),
                               aliases, normalized_input, base)

ResolveBySymbolMic(w, env, aliases, normalized_input, symbol_mic) ==
    IF ~ symbol_mic.ok THEN Return(w, normalized_input)
    ELSE ResolveByFirstSearch(
             EuronextSearchBySymbol(w, env, symbol_mic.base, symbol_mic.mic),
             env, aliases, normalized_input, symbol_mic.base)

ResolveBySymbol(w, env, aliases, normalized_input, normalized) ==
    ResolveBySymbolMic(w, env, aliases, normalized_input,
                       SymbolMicOf(normalized_input, normalized))

\* The ISIN branch of resolve_quote_symbol (lines 366-389).
ResolveByIsin(w, env, aliases, normalized_input, normalized) ==
    LET alias == MapGet(aliases, normalized)
        fetched == SearchSymbolForIsin(w, env, normalized)
        learn(wx, found) ==
            LET alias_value == Join3(found[1], normalized, found[2])
            IN  Return(LearnAliases(wx, aliases,
                                    <<<<normalized, alias_value>>,
                                      <<normalized_input, alias_value>>>>),
                       alias_value)
    IN  IF alias # <<>> THEN Return(w, alias)
        ELSE IF fetched.exc # "" THEN fetched
        ELSE IF fetched.val # <<>>
        THEN Return(LearnAliases(fetched.w, aliases, <<<<normalized, fetched.val>>>>),
                    fetched.val)
        ELSE LET r1 == EuronextSearchByIsin(fetched.w, env, normalized)
             IN  IF r1.exc = "" THEN learn(r1.w, r1.val)
                 ELSE LET r2 == EuronextLookupByIsin(r1.w, env, normalized)
                      IN  IF r2.exc = "" THEN learn(r2.w, r2.val)
                          ELSE Return(r2.w, normalized)

ResolveQuoteSymbol(w, env, symbol, type_portefeuille) ==
    LET normalized_input == StripUpper(symbol)
        match == EURONEXT_COMBINED_PATTERN(normalized_input)
        market_match == EURONEXT_ISIN_MARKET_PATTERN(normalized_input)
        normalized == IF match.ok THEN match.isin
                      ELSE IF market_match.ok THEN market_match.isin
                      ELSE normalized_input
        loaded == LoadQuoteAliases(w)
        aliases == loaded.val
    IN  IF normalized_input = <<>> THEN Return(w, <<>>)
        ELSE IF Upper(type_portefeuille) = <<"C", "R", "Y", "P", "T", "O">> THEN Return(w, normalized)
        ELSE IF MapGet(aliases, normalized_input) # <<>>
        THEN Return(loaded.w, MapGet(aliases, normalized_input))
        ELSE IF normalized # normalized_input /\ MapGet(aliases, normalized) # <<>>
        THEN Return(loaded.w, MapGet(aliases, normalized))
        ELSE IF ~ IsISIN(normalized)
        THEN ResolveBySymbol(loaded.w, env, aliases, normalized_input, normalized)
        ELSE ResolveByIsin(loaded.w, env, aliases, normalized_input, normalized)

\* SYMBOL.SUFFIX for an issue triple whose market has a Yahoo suffix, the
\* empty text otherwise.
YahooSymbolOf(m) ==
    LET mic == NormalizeMic(m.mic)
    IN  IF m.symbol # <<>> /\ mic # <<>> /\ MapGet(EURONEXT_MIC_TO_SUFFIX, mic) # <<>>
        THEN m.symbol \o <<".">> \o EURONEXT_MIC_TO_SUFFIX[mic]
        ELSE <<>>

DeriveEquityFetchSymbol(w, env, resolved_symbol) ==
    LET normalized == StripUpper(resolved_symbol)
        issue_match == EURONEXT_ISSUE_PATTERN(normalized)
    IN  IF normalized = <<>> THEN Return(w, normalized)
        ELSE IF IsISIN(normalized)
        THEN LET fetched == SearchSymbolForIsin(w, env, normalized)
             IN  IF fetched.exc # "" THEN fetched
                 ELSE IF fetched.val # <<>> THEN fetched
                 ELSE Return(fetched.w, normalized)
        ELSE IF issue_match.ok /\ YahooSymbolOf(issue_match) # <<>>
        THEN Return(w, YahooSymbolOf(issue_match))
        ELSE Return(w, normalized)

(***************************************************************************)
(* _iter_euronext_candidates.                                              *)
(***************************************************************************)
AddUnique(seq, x) == IF \E i \in 1..Len(seq) : seq[i] = x THEN seq ELSE Append(seq, x)

\* append_candidate: the stripped value, then its alias, unless already seen
\* (compared in upper case).
AppendCandidate(raw, aliases, value) ==
    LET normalized_value == Strip(value)
        seen(seq, v) == \E i \in 1..Len(seq) : Upper(seq[i]) = Upper(v)
        raw1 == IF seen(raw, normalized_value) THEN raw ELSE Append(raw, normalized_value)
        alias_value == MapGet(aliases, Upper(normalized_value))
    IN  IF normalized_value = <<>> THEN raw
        ELSE IF alias_value # <<>> /\ ~ seen(raw1, alias_value)
        THEN Append(raw1, alias_value) ELSE raw1

AddIssue(acc, symbol, isin, mic) ==
    [acc EXCEPT !.issues =
        AddUnique(@, Join3(StripUpper(symbol), StripUpper(isin), StripUpper(mic)))]

AddIsin(acc, value) ==
    LET upper == StripUpper(value)
    IN  IF upper # <<>> /\ IsISIN(upper)
        THEN [acc EXCEPT !.isins = AddUnique(@, upper)] ELSE acc

AddSymbolMic(acc, symbol, mic) ==
    LET key == <<StripUpper(symbol), StripUpper(mic)>>
    IN  IF key[1] # <<>> /\ key[2] # <<>>
        THEN [acc EXCEPT !.symbol_mics = AddUnique(@, key)] ELSE acc

\* for symbol, existing_mic in symbol_mics: if existing_mic == mic: add_issue
RECURSIVE AddIssuesForMarket(_, _, _, _)
AddIssuesForMarket(acc, pairs, isin, mic) ==
    IF pairs = <<>> THEN acc
    ELSE AddIssuesForMarket(
             IF pairs[1][2] = mic THEN AddIssue(acc, pairs[1][1], isin, mic) ELSE acc,
             Tail(pairs), isin, mic)

\* One iteration of the loop over raw_candidates (lines 494-541).
ClassifyCandidate(acc, raw_candidate) ==
    LET normalized == StripUpper(raw_candidate)
        issue_match == EURONEXT_ISSUE_PATTERN(normalized)
        combined_match == EURONEXT_COMBINED_PATTERN(normalized)
        market_match == EURONEXT_ISIN_MARKET_PATTERN(normalized)
        symbol_mic == ExtractSymbolMic(normalized)
    IN  IF normalized = <<>> THEN acc
        ELSE IF issue_match.ok
        THEN AddIssue(acc, issue_match.symbol, issue_match.isin, issue_match.mic)
        ELSE IF combined_match.ok
        THEN LET acc1 == AddIsin(acc, combined_match.isin)
                 mic == NormalizeMic(combined_match.mic)
                 inner == ExtractSymbolMic(combined_match.symbol)
             IN  IF combined_match.mic # <<>> /\ mic # <<>>
                 THEN AddIssue(acc1, combined_match.symbol, combined_match.isin, mic)
                 ELSE IF inner.ok THEN AddSymbolMic(acc1, inner.base, inner.mic)
                 ELSE acc1
        ELSE IF market_match.ok /\ NormalizeMic(market_match.mic) # <<>>
        THEN AddIssuesForMarket(AddIsin(acc, market_match.isin), acc.symbol_mics,
                                market_match.isin, NormalizeMic(market_match.mic))
        ELSE IF symbol_mic.ok THEN AddSymbolMic(acc, symbol_mic.base, symbol_mic.mic)
        ELSE AddIsin(acc, normalized)

RECURSIVE ClassifyAll(_, _)
ClassifyAll(acc, raw) ==
    IF raw = <<>> THEN acc ELSE ClassifyAll(ClassifyCandidate(acc, raw[1]), Tail(raw))

\* for symbol, mic in symbol_mics: for isin in isins: add_issue
RECURSIVE CrossIssues(_, _, _)
CrossIssues(acc, i, j) ==
    IF i > Len(acc.symbol_mics) THEN acc
    ELSE IF j > Len(acc.isins) THEN CrossIssues(acc, i + 1, 1)
    ELSE CrossIssues(AddIssue(acc, acc.symbol_mics[i][1], acc.isins[j], acc.symbol_mics[i][2]),
                     i, j + 1)

IterEuronextCandidates(w, original, resolved) ==
    LET loaded == LoadQuoteAliases(w)
        raw == AppendCandidate(AppendCandidate(<<>>, loaded.val, original),
                               loaded.val, resolved)
        acc == ClassifyAll([issues |-> <<>>, isins |-> <<>>, symbol_mics |-> <<>>], raw)
    IN  Return(loaded.w, CrossIssues(acc, 1, 1).issues)

(***************************************************************************)
(* The price fetchers and get_market_price.                                *)
(***************************************************************************)
\* _fetch_equity_price: only httpx.HTTPError and an empty result are turned
\* into MarketPriceUnavailable; the error of resp.json() on a body that is
\* not JSON is a ValueError and is not caught.
FetchEquityPrice(w, env, symbol) ==
    LET w1 == Logged(w, "yahoo_quote", Upper(symbol),
                     env.yquote = "ok" /\ Upper(symbol) \in YahooQuoted)
    IN  CASE env.yquote = "http" -> Raise(w1, "MarketPriceUnavailable")
          [] env.yquote = "badjson" -> Raise(w1, "ValueError")
          [] env.yquote = "empty" -> Raise(w1, "MarketPriceUnavailable")
          [] OTHER ->
               IF Upper(symbol) \in YahooQuoted
               THEN Return(w1, YahooPrice)
               ELSE Raise(w1, "MarketPriceUnavailable")

EndsWith(s, t) == Len(s) >= Len(t) /\ SubSeq(s, Len(s) - Len(t) + 1, Len(s)) = t

\* _fetch_crypto_price: every exception of the Binance call is caught.
FetchCryptoPrice(w, env, symbol) ==
    LET pair == IF EndsWith(Upper(symbol), <<"E", "U", "R">>) THEN Upper(symbol)
                ELSE Upper(symbol) \o <<"E", "U", "R">>
        w1 == Logged(w, "binance", pair, env.binance = "ok")
    IN  IF env.binance = "ok" THEN Return(w1, BinancePrice)
        ELSE Raise(w1, "MarketPriceUnavailable")

\* A plausible slip: break instead of continue, so that the first failing
\* candidate ends the regional attempts.
EuronextLoopStopAtFailure(w, env, candidates) ==
    IF candidates = <<>> THEN [w |-> w, found |-> FALSE, val |-> <<>>]
    ELSE LET r == EuronextFetchPrice(w, env, candidates[1])
             w1 == [r.w EXCEPT !.tried = Append(@, [arg |-> candidates[1], ok |-> r.exc = ""])]
         IN  [w |-> w1, found |-> r.exc = "", val |-> r.val]

\* The loop over the regional candidates (lines 556-585): the first
\* candidate whose fetch succeeds ends the loop.
RECURSIVE EuronextLoop(_, _, _)
EuronextLoop(w, env, candidates) ==
    IF candidates = <<>> THEN [w |-> w, found |-> FALSE, val |-> <<>>]
    ELSE LET r == EuronextFetchPrice(w, env, candidates[1])
             w1 == [r.w EXCEPT !.tried = Append(@, [arg |-> candidates[1], ok |-> r.exc = ""])]
         IN  IF r.exc = "" THEN [w |-> w1, found |-> TRUE, val |-> r.val]
             ELSE EuronextLoop(w1, env, Tail(candidates))

\* needs_adjustment (lines 599-606).
NeedsAdjustment(normalized_resolved, derived_fetch_symbol) ==
    IF IsISIN(normalized_resolved) THEN IsISIN(derived_fetch_symbol)
    ELSE IF EURONEXT_ISSUE_PATTERN(normalized_resolved).ok
            \/ EURONEXT_COMBINED_PATTERN(normalized_resolved).ok
    THEN derived_fetch_symbol = normalized_resolved
    ELSE FALSE

\* adjusted_fetch_symbol (lines 609-638); the empty text stands for None.
AdjustedFetchSymbol(w, env, normalized_resolved) ==
    LET issue_match == EURONEXT_ISSUE_PATTERN(normalized_resolved)
        combined_match == EURONEXT_COMBINED_PATTERN(normalized_resolved)
        m == IF issue_match.ok THEN issue_match ELSE combined_match
    IN  IF IsISIN(normalized_resolved)
        THEN SearchSymbolForIsin(w, env, normalized_resolved)
        ELSE IF ~ m.ok THEN Return(w, <<>>)
        ELSE IF YahooSymbolOf(m) # <<>> THEN Return(w, YahooSymbolOf(m))
        ELSE IF IsISIN(m.isin) THEN SearchSymbolForIsin(w, env, m.isin)
        ELSE Return(w, <<>>)

\* The symbol handed to the general equity source (lines 594-641).
EquityFetchSymbol(w, env, resolved_symbol) ==
    LET derived == DeriveEquityFetchSymbol(w, env, resolved_symbol)
        normalized_resolved == StripUpper(resolved_symbol)
        adjusted == AdjustedFetchSymbol(derived.w, env, normalized_resolved)
    IN  IF derived.exc # "" THEN derived
        ELSE IF ~ NeedsAdjustment(normalized_resolved, StripUpper(derived.val))
        THEN derived
        ELSE IF adjusted.exc # "" THEN adjusted
        ELSE IF adjusted.val # <<>> THEN adjusted
        ELSE Return(adjusted.w, derived.val)

\* try: price = fetcher(fetch_symbol) / except MarketPriceUnavailable
\* (lines 679-698): the cached price of the pair when there is one.
FallbackFetch(fetched, cache_key) ==
    IF fetched.exc = ""
    THEN Return([fetched.w EXCEPT !.price_cache = MapPut(@, cache_key, fetched.val)],
                fetched.val)
    ELSE IF fetched.exc = "MarketPriceUnavailable" /\ cache_key \in DOMAIN fetched.w.price_cache
    THEN Return(fetched.w, fetched.w.price_cache[cache_key])
    ELSE Raise(fetched.w, fetched.exc)

\* cache_key = (resolved_symbol.upper(), (type_portefeuille or "").upper())
CacheKeyOf(resolved_symbol, type_portefeuille) ==
    <<Upper(resolved_symbol), Upper(type_portefeuille)>>

IsCrypto(type_portefeuille) == Upper(type_portefeuille) = <<"C", "R", "Y", "P", "T", "O">>

\* The general equity source, asked for the symbol derived from the key.
EquityFetch(fetch_symbol, env, cache_key) ==
    IF fetch_symbol.exc # "" THEN fetch_symbol
    ELSE FallbackFetch(FetchEquityPrice(fetch_symbol.w, env, fetch_symbol.val), cache_key)

\* get_market_price once the loop over the regional candidates has ended.
PriceAfterLoop(loop, env, resolved_symbol, type_portefeuille) ==
    IF loop.found
    THEN Return([loop.w EXCEPT !.price_cache =
                    MapPut(@, CacheKeyOf(resolved_symbol, type_portefeuille), loop.val)],
                loop.val)
    ELSE IF IsCrypto(type_portefeuille)
    THEN FallbackFetch(FetchCryptoPrice(loop.w, env, resolved_symbol),
                       CacheKeyOf(resolved_symbol, type_portefeuille))
    ELSE EquityFetch(EquityFetchSymbol(loop.w, env, resolved_symbol), env,
                     CacheKeyOf(resolved_symbol, type_portefeuille))

\* get_market_price once the regional candidates are known; the outcome also
\* carries the resolved quote key, the cache key and the candidates.
PriceAfterCandidates(cands, env, resolved_symbol, type_portefeuille) ==
    PriceAfterLoop(EuronextLoop(cands.w, env, cands.val), env, resolved_symbol,
                   type_portefeuille)
        @@ [resolved |-> resolved_symbol,
            cache_key |-> CacheKeyOf(resolved_symbol, type_portefeuille),
            candidates |-> cands.val]

PriceAfterResolve(resolved, env, symbol, type_portefeuille) ==
    IF resolved.exc # ""
    THEN resolved @@ [resolved |-> <<>>, cache_key |-> <<>>, candidates |-> <<>>]
    ELSE PriceAfterCandidates(
             IF IsCrypto(type_portefeuille) THEN Return(resolved.w, <<>>)
             ELSE IterEuronextCandidates(resolved.w, symbol, resolved.val),
             env, resolved.val, type_portefeuille)

\* get_market_price; calls and tried start empty with each call.
GetMarketPrice(w0, env, symbol, type_portefeuille) ==
    PriceAfterResolve(
        ResolveQuoteSymbol([w0 EXCEPT !.calls = <<>>, !.tried = <<>>], env, symbol,
                           type_portefeuille),
        env, symbol, type_portefeuille)

(***************************************************************************)
(* Environments and inputs of the price lookups.                           *)
(***************************************************************************)
Issues == {ISSUE_LVMH, ISSUE_MC}

\* Each Euronext quote is there or not, or every quote is in another
\* currency; the Yahoo endpoints answer, fail or send a body that is not JSON.
EquityEnvs ==
    [eprice : [Issues -> {"ok", "http"}] \cup {[i \in Issues |-> "currency"]},
     esearch : {"ok", "http"},
     elookup : {"http"},
     ysearch : {"ok", "http", "badjson"},
     yquote : {"ok", "http", "badjson"},
     binance : {"http"}]

CryptoEnvs ==
    [eprice : [Issues -> {"http"}],
     esearch : {"http"},
     elookup : {"http"},
     ysearch : {"http"},
     yquote : {"http"},
     binance : {"ok", "http", "badjson"}]

\* The (code, bucket) pairs the lookups are made for.
Lookups ==
    {<<<<"X", "Y", "Z">>, <<"C", "T", "O">>>>,
     <<<<"L", "V", "M", "H", "-", "F", "R", "0", "0", "0", "0", "1", "2", "3", "4", "5", "6", "-", "P", "A">>, <<"P", "E", "A">>>>,
     <<<<"B", "T", "C">>, <<"C", "R", "Y", "P", "T", "O">>>>,
     <<<<"b", "t", "c", "-", "F", "R", "0", "0", "0", "0", "1", "2", "3", "4", "5", "6">>, <<"c", "r", "y", "p", "t", "o">>>>}

EnvsFor(type_portefeuille) ==
    IF Upper(type_portefeuille) = <<"C", "R", "Y", "P", "T", "O">> THEN CryptoEnvs ELSE EquityEnvs

(***************************************************************************)
(* compute_holdings.  A transaction row is a record; an optional column is *)
(* None (the empty tuple) or Some(text) (a one-element tuple).             *)
(***************************************************************************)
None == <<>>
Some(text) == <<text>>
TextOf(opt) == IF opt = None THEN <<>> ELSE opt[1]

FIAT_CURRENCIES ==
    {<<"E", "U", "R">>, <<"U", "S", "D">>, <<"G", "B", "P">>, <<"C", "H", "F">>, <<"J", "P", "Y">>, <<"A", "U", "D">>, <<"C", "A", "D">>, <<"S", "E", "K">>, <<"N", "O", "K">>, <<"D", "K", "K">>,
     <<"C", "Z", "K">>, <<"P", "L", "N">>, <<"H", "U", "F">>, <<"T", "R", "Y">>, <<"C", "N", "Y">>, <<"H", "K", "D">>, <<"S", "G", "D">>, <<"N", "Z", "D">>, <<"Z", "A", "R">>}

\* re.findall(r"[A-Z]{3}", text): the non-overlapping runs of three letters,
\* scanned from the left.
RECURSIVE FindTokens(_)
FindTokens(s) ==
    IF Len(s) < 3 THEN {}
    ELSE IF AllIn(SubSeq(s, 1, 3), UpperLetters)
    THEN {SubSeq(s, 1, 3)} \cup FindTokens(SubSeq(s, 4, Len(s)))
    ELSE FindTokens(Tail(s))

ContainsFiatCode(text) ==
    text # <<>> /\ FindTokens(Upper(text)) \cap FIAT_CURRENCIES # {}

IdSep == <<":", ":">>

BuildIdentifierFromKey(key) ==
    IF key[3] # <<>>
    THEN key[1] \o IdSep \o key[3] \o IdSep \o key[2]
    ELSE key[1] \o IdSep \o key[2]

\* identifier.split("::"): the separators are found from left to right.
RECURSIVE SplitIdentifierFrom(_, _)
SplitIdentifierFrom(s, part) ==
    IF s = <<>> THEN <<part>>
    ELSE IF Len(s) >= 2 /\ SubSeq(s, 1, 2) = IdSep
    THEN <<part>> \o SplitIdentifierFrom(SubSeq(s, 3, Len(s)), <<>>)
    ELSE SplitIdentifierFrom(Tail(s), Append(part, s[1]))

RECURSIVE JoinIdentifier(_)
JoinIdentifier(parts) ==
    IF Len(parts) = 1 THEN parts[1]
    ELSE parts[1] \o IdSep \o JoinIdentifier(Tail(parts))

\* _parse_identifier: (symbol, type_portefeuille, account_id).
ParseIdentifier(identifier) ==
    IF identifier = <<>> THEN <<<<>>, None, None>>
    ELSE LET raw_parts == SplitIdentifierFrom(identifier, <<>>)
             parts == [i \in 1..Len(raw_parts) |-> Strip(raw_parts[i])]
         IN  IF Len(parts) >= 3
             THEN <<Upper(JoinIdentifier(SubSeq(parts, 3, Len(parts)))),
                    Some(Upper(parts[1])),
                    IF Upper(parts[2]) # <<>> THEN Some(Upper(parts[2])) ELSE None>>
             ELSE IF Len(parts) = 2
             THEN <<Upper(parts[2]), Some(Upper(parts[1])), None>>
             ELSE <<Upper(parts[1]), None, None>>

(***************************************************************************)
(* Key texts: the normalizers and the identifier applied to short texts.   *)
(***************************************************************************)
MaxTextLen == 3

KeyAlphabet == {"a", "A", "1", " ", "\t", ":"}

KeyTexts == UNION {[1..n -> KeyAlphabet] : n \in 0..MaxTextLen}

\* The three normalizers applied to one text, or to no text at all.  They
\* read no state, so one application per behaviour shows all they can do.
NormalizeKeyText ==
    /\ last.op = "none"
    /\ \E text \in {None} \cup {Some(t) : t \in KeyTexts} :
        last' = [op |-> "normalize", text |-> text,
                 bucket |-> NormalizePortfolioType(TextOf(text)),
                 symbol |-> NormalizeSymbol(TextOf(text)),
                 account |-> NormalizeAccountId(TextOf(text))]
    /\ UNCHANGED <<world, txs, memo, nreq, hist>>
    /\ UNCHANGED <<fifoVars, threads>>

\* The identifier of the key of (type_portefeuille, symbol, account_id), and
\* what the parser reads in it.
IdentifierRoundTrip ==
    /\ last.op = "none"
    /\ \E type_portefeuille \in {None, Some(<<"c", "t", "o">>)} :
       \E symbol \in {t \in KeyTexts : NormalizeSymbol(t) # <<>>} :
       \E account_id \in {None, Some(<<"a", "1">>)} :
        LET key == MakePortfolioKey(TextOf(type_portefeuille), symbol, TextOf(account_id))
        IN  last' = [op |-> "identifier", key |-> key,
                     identifier |-> BuildIdentifierFromKey(key),
                     parsed |-> ParseIdentifier(BuildIdentifierFromKey(key))]
    /\ UNCHANGED <<world, txs, memo, nreq, hist>>
    /\ UNCHANGED <<fifoVars, threads>>

\* The state carried through the pass over the transactions.
EmptyPass ==
    [assets |-> NoAssets,
     order |-> <<>>,
     portfolio_types |-> EmptyMap,
     symbol_labels |-> EmptyMap,
     account_labels |-> EmptyMap,
     realized_total |-> RZero]

\* The body of the loop over the transactions (lines 710-743).
ApplyTransaction(p, tx) ==
    LET raw_symbol == Strip(IF tx.symbol_or_isin # <<>> THEN tx.symbol_or_isin ELSE tx.asset)
        code == IF raw_symbol # <<>> THEN raw_symbol ELSE tx.asset
        symbol == NormalizeSymbol(code)
        key == MakePortfolioKey(tx.portfolio_type, code, TextOf(tx.account_id))
        operation == Upper(tx.operation)
        labelled ==
            [p EXCEPT
                !.portfolio_types = MapPut(@, key, NormalizePortfolioType(tx.portfolio_type)),
                !.symbol_labels = IF MapGet(@, key) = <<>> THEN MapPut(@, key, symbol) ELSE @,
                !.account_labels =
                    IF MapGet(@, key) = None /\ tx.account_id # None
                    THEN MapPut(@, key, tx.account_id)
                    ELSE IF key \notin DOMAIN @ THEN MapPut(@, key, tx.account_id)
                    ELSE @]
        touched == [labelled EXCEPT
                      !.order = IF key \in DOMAIN p.assets THEN @ ELSE Append(@, key)]
        net == RSub(tx.total_eur, tx.fee_eur)
        sold == Sell(p.assets, key, tx.quantity, tx.total_eur, tx.fee_eur)
    IN  CASE operation = <<"B", "U", "Y">> ->
               [touched EXCEPT !.assets =
                   Buy(p.assets, key, tx.quantity, RAdd(tx.total_eur, tx.fee_eur))]
          [] operation = <<"S", "E", "L", "L">> ->
               IF ContainsFiatCode(Strip(tx.asset)) \/ ContainsFiatCode(Strip(tx.symbol_or_isin))
               THEN [labelled EXCEPT !.realized_total = RAdd(@, net)]
               ELSE [touched EXCEPT !.assets = sold.assets,
                                    !.realized_total = RAdd(@, sold.realized_pnl)]
          [] operation = <<"D", "I", "V", "I", "D", "E", "N", "D">> ->
               [touched EXCEPT !.assets = Dividend(p.assets, key, net),
                               !.realized_total = RAdd(@, net)]
          [] OTHER ->
               [labelled EXCEPT !.realized_total = RAdd(@, tx.total_eur)]

RECURSIVE ReplayTransactions(_, _)
ReplayTransactions(p, rows) ==
    IF rows = <<>> THEN p
    ELSE ReplayTransactions(ApplyTransaction(p, rows[1]), Tail(rows))

\* except MarketPriceUnavailable: market_price = cost / qty
PriceOrFallback(priced, qty, cost) ==
    IF priced.exc = "" THEN priced.val ELSE RDiv(cost, qty)

HoldingViewOf(p, key, qty, cost, market_price) ==
    LET market_value == RMul(market_price, qty)
        pl_latent == RSub(market_value, cost)
    IN  [identifier |-> BuildIdentifierFromKey(key),
         asset |-> IF key \in DOMAIN p.symbol_labels THEN p.symbol_labels[key] ELSE key[2],
         symbol_or_isin |-> IF key \in DOMAIN p.symbol_labels
                            THEN p.symbol_labels[key] ELSE key[2],
         quantity |-> qty,
         pru_eur |-> RDiv(cost, qty),
         invested_eur |-> cost,
         market_price_eur |-> market_price,
         market_value_eur |-> market_value,
         pl_eur |-> pl_latent,
         pl_pct |-> IF cost # RZero THEN RMul(RDiv(pl_latent, cost), R(100)) ELSE RZero,
         type_portefeuille |-> IF key \in DOMAIN p.portfolio_types
                               THEN p.portfolio_types[key] ELSE <<"P", "E", "A">>,
         account_id |-> MapGet(p.account_labels, key)]

\* The loop over the ledger keys (lines 747-778); an exception of the price
\* lookup other than MarketPriceUnavailable ends the whole computation.
RECURSIVE ValuePositions(_, _, _, _, _)
ValuePriced(priced, env, p, keys, holdings, pos) ==
    IF priced.exc \notin {"", "MarketPriceUnavailable"}
    THEN Raise(priced.w, priced.exc)
    ELSE ValuePositions(priced.w, env, p, Tail(keys),
             Append(holdings,
                    HoldingViewOf(p, keys[1], pos[1], pos[2],
                                  PriceOrFallback(priced, pos[1], pos[2]))))

ValuePosition(w, env, p, keys, holdings, pos) ==
    IF RLe(pos[1], R(QtyEps)) THEN ValuePositions(w, env, p, Tail(keys), holdings)
    ELSE ValuePriced(GetMarketPrice(w, env,
                         IF keys[1] \in DOMAIN p.symbol_labels
                         THEN p.symbol_labels[keys[1]] ELSE keys[1][2],
                         MapGet(p.portfolio_types, keys[1])),
                     env, p, keys, holdings, pos)

ValuePositions(w, env, p, keys, holdings) ==
    IF keys = <<>> THEN Return(w, holdings)
    ELSE ValuePosition(w, env, p, keys, holdings,
                       CurrentPosition(p.assets, keys[1]).position)

RECURSIVE SumField(_, _)
SumField(holdings, f) ==
    IF holdings = <<>> THEN RZero
    ELSE RAdd(holdings[1][f], SumField(Tail(holdings), f))

\* A plausible slip: the realized total is counted in the latent P&L too.
TotalsWithRealizedInLatent(holdings, realized_total) ==
    [total_value |-> SumField(holdings, "market_value_eur"),
     total_invested |-> SumField(holdings, "invested_eur"),
     realized_pnl |-> realized_total,
     latent_pnl |-> RAdd(SumField(holdings, "pl_eur"), realized_total)]

\* The totals (lines 780-785).
TotalsOf(holdings, realized_total) ==
    [total_value |-> SumField(holdings, "market_value_eur"),
     total_invested |-> SumField(holdings, "invested_eur"),
     realized_pnl |-> realized_total,
     latent_pnl |-> SumField(holdings, "pl_eur")]

HoldingsValued(valued, realized_total) ==
    IF valued.exc # "" THEN valued
    ELSE Return(valued.w, [holdings |-> valued.val,
                           totals |-> TotalsOf(valued.val, realized_total)])

HoldingsOfPass(w, env, p) ==
    HoldingsValued(ValuePositions(w, env, p, p.order, <<>>), p.realized_total)

\* The body of compute_holdings, without its memoization.
ComputeHoldingsBody(w, env, rows) ==
    HoldingsOfPass(w, env, ReplayTransactions(EmptyPass, rows))

(***************************************************************************)
(* Requests.  Each action serves one request from start to end.            *)
(***************************************************************************)
MaxRequests == 2
MaxTransactions == 2

NoMemo == [present |-> FALSE, value |-> <<>>]

\* The history kept next to the program state:
\*   learned   identifier -> quote key, for the identifiers resolve_quote_symbol
\*             resolved through an external search since the in-process alias
\*             map was last dropped
\*   recent    the identifier that the last calls of resolve_quote_symbol
\*             were all about, once it was resolved through an external
\*             search
\*   dropped   whether an update, a delete or a wipe has dropped memoized
\*             holdings since compute_holdings was last called
\*   priced    (code, bucket) -> the price that get_market_price last
\*             returned for the pair
\*   owed      the price that get_market_price had returned for the pair of
\*             the last lookup before that lookup, if any
NoHistory ==
    [learned |-> EmptyMap, recent |-> None, dropped |-> FALSE,
     priced |-> EmptyMap, owed |-> None]

Dropping(m) == IF m.present THEN [hist EXCEPT !.dropped = TRUE] ELSE hist

\* One price lookup, get_market_price(symbol, type_portefeuille), with
\* outcome r.
PriceServed(symbol, type_portefeuille, r) ==
    /\ world' = r.w
    /\ last' = [op |-> "get_market_price", symbol |-> symbol, type |-> type_portefeuille,
                cached |-> world.price_cache, exc |-> r.exc, val |-> r.val,
                aliases_loaded |-> world.quote_alias_cache.present,
                resolved |-> r.resolved, cache_key |-> r.cache_key,
                candidates |-> r.candidates]

PriceLookup ==
    /\ nreq < MaxRequests
    /\ \E l \in Lookups : \E env \in EnvsFor(l[2]) :
        PriceServed(l[1], l[2], GetMarketPrice(world, env, l[1], l[2]))
    /\ nreq' = nreq + 1
    /\ UNCHANGED <<txs, memo, hist>>
    /\ UNCHANGED <<fifoVars, threads>>

\* The answers of the sources when each of them either answers or is down.
UpOrDownEnvs ==
    [eprice : {[i \in Issues |-> "http"]},
     esearch : {"ok", "http"},
     elookup : {"http"},
     ysearch : {"ok", "http"},
     yquote : {"ok", "http"},
     binance : {"http"}]

\* The pairs looked up again and again: an instrument under its combined
\* string and under its ISIN, and a code no source knows.
RepeatedLookups ==
    {<<<<"L", "V", "M", "H", "-", "F", "R", "0", "0", "0", "0", "1", "2", "3", "4", "5", "6", "-", "P", "A">>, <<"P", "E", "A">>>>, <<<<"F", "R", "0", "0", "0", "0", "1", "2", "3", "4", "5", "6">>, <<"P", "E", "A">>>>, <<<<"X", "Y", "Z">>, <<"C", "T", "O">>>>}

\* One price lookup with outcome r, remembered by the pair it was made for.
PriceRemembered(symbol, type_portefeuille, r) ==
    /\ PriceServed(symbol, type_portefeuille, r)
    /\ hist' = [hist EXCEPT
                  !.owed = IF <<symbol, type_portefeuille>> \in DOMAIN hist.priced
                           THEN Some(hist.priced[<<symbol, type_portefeuille>>])
                           ELSE None,
                  !.priced = IF r.exc = ""
                             THEN MapPut(@, <<symbol, type_portefeuille>>, r.val)
                             ELSE @]

\* get_market_price for one of the repeated pairs; no price-cache entry
\* expires between these lookups.
RepeatedPriceLookup ==
    /\ nreq < MaxRequests
    /\ \E l \in RepeatedLookups : \E env \in UpOrDownEnvs :
        PriceRemembered(l[1], l[2], GetMarketPrice(world, env, l[1], l[2]))
    /\ nreq' = nreq + 1
    /\ UNCHANGED <<txs, memo>>
    /\ UNCHANGED <<fifoVars, threads>>

\* The TTL of one price-cache entry runs out.
ExpirePrice ==
    /\ \E k \in DOMAIN world.price_cache :
        world' = [world EXCEPT !.price_cache = [x \in DOMAIN @ \ {k} |-> @[x]]]
    /\ last' = [op |-> "expire"]
    /\ UNCHANGED <<txs, memo, nreq, hist>>
    /\ UNCHANGED <<fifoVars, threads>>

\* The TTL of the in-process alias map runs out (clear_quote_alias_cache has
\* the same effect).
ExpireAliases ==
    /\ world.quote_alias_cache.present
    /\ world' = [world EXCEPT !.quote_alias_cache = AliasAbsent]
    /\ last' = [op |-> "expire"]
    /\ hist' = [hist EXCEPT !.learned = EmptyMap, !.recent = None]
    /\ UNCHANGED <<txs, memo, nreq>>
    /\ UNCHANGED <<fifoVars, threads>>

\* The TTL of the entries of the Euronext client caches runs out.
ExpireEuronext ==
    /\ \/ world.CACHE # EmptyMap \/ world.SEARCH_CACHE # EmptyMap
       \/ world.SYMBOL_SEARCH_CACHE # EmptyMap \/ world.LOOKUP_CACHE # EmptyMap
    /\ world' = [world EXCEPT !.CACHE = EmptyMap, !.SEARCH_CACHE = EmptyMap,
                              !.SYMBOL_SEARCH_CACHE = EmptyMap, !.LOOKUP_CACHE = EmptyMap]
    /\ last' = [op |-> "expire"]
    /\ UNCHANGED <<txs, memo, nreq, hist>>
    /\ UNCHANGED <<fifoVars, threads>>

(***************************************************************************)
(* The transactions a client may import, and the answers of the quote      *)
(* sources while holdings are computed.                                    *)
(***************************************************************************)
\* (bucket, account, instrument code) of the rows: one instrument in two
\* buckets and under two accounts, and a second instrument.
TxPositions ==
    {<<<<"P", "E", "A">>, None, <<"A", "C", "M", "E">>>>,
     <<<<"c", "t", "o">>, None, <<"A", "C", "M", "E">>>>,
     <<<<"P", "E", "A">>, Some(<<"a", "1">>), <<"A", "C", "M", "E">>>>,
     <<<<"P", "E", "A">>, None, <<"X", "Y", "Z">>>>}

TxOperations == {<<"B", "U", "Y">>, <<"S", "E", "L", "L">>, <<"D", "I", "V", "I", "D", "E", "N", "D">>}

TxRows ==
    {[portfolio_type |-> pos[1], account_id |-> pos[2], operation |-> op,
      asset |-> pos[3], symbol_or_isin |-> <<>>,
      quantity |-> IF op = <<"B", "U", "Y">> THEN R(2) ELSE R(1),
      total_eur |-> R(10), fee_eur |-> R(2)] : pos \in TxPositions, op \in TxOperations}

HoldingsEnvs ==
    [eprice : [Issues -> {"http"}],
     esearch : {"http"},
     elookup : {"http"},
     ysearch : {"http"},
     yquote : {"ok", "http", "badjson"},
     binance : {"http"}]

\* A plausible slip: the row is committed and the memoized holdings are kept.
RowImportedKeepingMemo(row) ==
    /\ txs' = Append(txs, row)
    /\ last' = [op |-> "import"]
    /\ UNCHANGED <<world, memo, nreq, hist>>
    /\ UNCHANGED <<fifoVars, threads>>

\* POST /transactions/import of one new row: the row is committed, then the
\* memoized holdings are dropped.
RowImported(row) ==
    /\ txs' = Append(txs, row)
    /\ memo' = NoMemo
    /\ last' = [op |-> "import"]
    /\ UNCHANGED <<world, nreq, hist>>
    /\ UNCHANGED <<fifoVars, threads>>

ImportTransaction ==
    /\ Len(txs) < MaxTransactions
    /\ \E row \in TxRows : RowImported(row)

\* The rows of a small account book: a purchase and the sale that closes it,
\* a dividend, a deposit, the sale of a currency, and a purchase in a second
\* bucket.
LedgerRow(portfolio_type, operation, asset, quantity) ==
    [portfolio_type |-> portfolio_type, account_id |-> None, operation |-> operation,
     asset |-> asset, symbol_or_isin |-> <<>>,
     quantity |-> R(quantity), total_eur |-> R(10), fee_eur |-> R(2)]

LedgerRows ==
    {LedgerRow(<<"P", "E", "A">>, <<"B", "U", "Y">>, <<"A", "C", "M", "E">>, 2),
     LedgerRow(<<"P", "E", "A">>, <<"S", "E", "L", "L">>, <<"A", "C", "M", "E">>, 2),
     LedgerRow(<<"P", "E", "A">>, <<"D", "I", "V", "I", "D", "E", "N", "D">>, <<"A", "C", "M", "E">>, 1),
     LedgerRow(<<"P", "E", "A">>, <<"D", "E", "P", "O", "S", "I", "T">>, <<"E", "U", "R">>, 1),
     LedgerRow(<<"P", "E", "A">>, <<"S", "E", "L", "L">>, <<"E", "U", "R">>, 1),
     LedgerRow(<<"c", "t", "o">>, <<"B", "U", "Y">>, <<"X", "Y", "Z">>, 2)}

ImportLedgerRow ==
    /\ Len(txs) < MaxTransactions
    /\ \E row \in LedgerRows : RowImported(row)

\* Rows that name one instrument by its ticker, by its ISIN and by the
\* combined string.
InstrumentRows ==
    {[portfolio_type |-> <<"P", "E", "A">>, account_id |-> None, operation |-> op,
      asset |-> <<"L", "V", "M", "H">>, symbol_or_isin |-> code,
      quantity |-> IF op = <<"B", "U", "Y">> THEN R(2) ELSE R(1),
      total_eur |-> R(10), fee_eur |-> R(2)] :
        op \in {<<"B", "U", "Y">>, <<"S", "E", "L", "L">>},
        code \in {<<"M", "C">>, <<"F", "R", "0", "0", "0", "0", "1", "2", "3", "4", "5", "6">>, <<"M", "C", "-", "F", "R", "0", "0", "0", "0", "1", "2", "3", "4", "5", "6", "-", "X", "P", "A", "R">>}}

ImportInstrumentRow ==
    /\ Len(txs) < MaxTransactions
    /\ \E row \in InstrumentRows : RowImported(row)

\* Rows of an instrument whose name holds the letters of a currency code, of
\* an instrument whose name holds none, and the sale of a currency.
CashRows ==
    {LedgerRow(<<"P", "E", "A">>, <<"B", "U", "Y">>, <<"E", "U", "R", "O", "F", "I", "N", "S">>, 2),
     LedgerRow(<<"P", "E", "A">>, <<"S", "E", "L", "L">>, <<"E", "U", "R", "O", "F", "I", "N", "S">>, 1),
     LedgerRow(<<"P", "E", "A">>, <<"B", "U", "Y">>, <<"A", "C", "M", "E">>, 2),
     LedgerRow(<<"P", "E", "A">>, <<"S", "E", "L", "L">>, <<"A", "C", "M", "E">>, 1),
     LedgerRow(<<"P", "E", "A">>, <<"S", "E", "L", "L">>, <<"E", "U", "R">>, 1)}

ImportCashRow ==
    /\ Len(txs) < MaxTransactions
    /\ \E row \in CashRows : RowImported(row)

\* Rows of one instrument without account, under an account and in a second
\* bucket, the sale that closes the first position, and a currency bought
\* and sold.
DetailRow(portfolio_type, account_id, operation, asset, quantity) ==
    [portfolio_type |-> portfolio_type, account_id |-> account_id, operation |-> operation,
     asset |-> asset, symbol_or_isin |-> <<>>,
     quantity |-> R(quantity), total_eur |-> R(10), fee_eur |-> R(2)]

DetailRows ==
    {DetailRow(<<"P", "E", "A">>, None, <<"B", "U", "Y">>, <<"A", "C", "M", "E">>, 2),
     DetailRow(<<"P", "E", "A">>, None, <<"S", "E", "L", "L">>, <<"A", "C", "M", "E">>, 2),
     DetailRow(<<"P", "E", "A">>, Some(<<"a", "1">>), <<"B", "U", "Y">>, <<"A", "C", "M", "E">>, 2),
     DetailRow(<<"c", "t", "o">>, None, <<"B", "U", "Y">>, <<"A", "C", "M", "E">>, 2),
     DetailRow(<<"P", "E", "A">>, None, <<"B", "U", "Y">>, <<"E", "U", "R">>, 2),
     DetailRow(<<"P", "E", "A">>, None, <<"S", "E", "L", "L">>, <<"E", "U", "R">>, 1)}

ImportDetailRow ==
    /\ Len(txs) < MaxTransactions
    /\ \E row \in DetailRows : RowImported(row)

\* PATCH /transactions/{id}: the fields of one row are replaced (the account
\* is not a field of the payload; the date is left as it is), the row is
\* committed, then the memoized holdings are dropped.
UpdateTransaction ==
    /\ \E i \in 1..Len(txs) : \E row \in LedgerRows :
        /\ row.account_id = txs[i].account_id
        /\ row # txs[i]
        /\ txs' = [txs EXCEPT ![i] = row]
    /\ memo' = NoMemo
    /\ last' = [op |-> "update"]
    /\ hist' = Dropping(memo)
    /\ UNCHANGED <<world, nreq>>
    /\ UNCHANGED <<fifoVars, threads>>

\* DELETE /transactions/{id}.
DeleteTransaction ==
    /\ \E i \in 1..Len(txs) :
        txs' = SubSeq(txs, 1, i - 1) \o SubSeq(txs, i + 1, Len(txs))
    /\ memo' = NoMemo
    /\ last' = [op |-> "delete"]
    /\ hist' = Dropping(memo)
    /\ UNCHANGED <<world, nreq>>
    /\ UNCHANGED <<fifoVars, threads>>

\* POST /config/wipe: every row is deleted and the memoized holdings are
\* dropped.
WipeData ==
    /\ txs # <<>> \/ memo.present
    /\ txs' = <<>>
    /\ memo' = NoMemo
    /\ last' = [op |-> "wipe"]
    /\ hist' = Dropping(memo)
    /\ UNCHANGED <<world, nreq>>
    /\ UNCHANGED <<fifoVars, threads>>

\* compute_holdings(db) behind @cached: a memoized value is returned as it
\* is; otherwise the body runs and its result r, unless it raised, is stored.
HoldingsComputed(r) ==
    /\ world' = r.w
    /\ memo' = IF r.exc = "" THEN [present |-> TRUE, value |-> r.val] ELSE memo
    /\ last' = [op |-> "compute_holdings", cached |-> world.price_cache,
                exc |-> r.exc, val |-> r.val, computed |-> TRUE,
                after_drop |-> hist.dropped]
    /\ hist' = [hist EXCEPT !.dropped = FALSE]

\* A plausible slip: no memoization, every call runs the body.
ComputeHoldingsUnmemoized ==
    /\ nreq < MaxRequests
    /\ \E env \in HoldingsEnvs : HoldingsComputed(ComputeHoldingsBody(world, env, txs))
    /\ nreq' = nreq + 1
    /\ UNCHANGED txs
    /\ UNCHANGED <<fifoVars, threads>>

ComputeHoldings ==
    /\ nreq < MaxRequests
    /\ \E env \in HoldingsEnvs :
        IF memo.present
        THEN /\ last' = [op |-> "compute_holdings", cached |-> world.price_cache,
                         exc |-> "", val |-> memo.value, computed |-> FALSE,
                         after_drop |-> hist.dropped]
             /\ UNCHANGED <<world, memo, hist>>
        ELSE HoldingsComputed(ComputeHoldingsBody(world, env, txs))
    /\ nreq' = nreq + 1
    /\ UNCHANGED txs
    /\ UNCHANGED <<fifoVars, threads>>

\* The summary that GET /portfolio/holdings builds from the holdings.
HoldingsSummary(holdings) ==
    LET total_value == SumField(holdings, "market_value_eur")
        total_invested == SumField(holdings, "invested_eur")
    IN  [total_value_eur |-> total_value,
         total_invested_eur |-> total_invested,
         pnl_eur |-> RSub(total_value, total_invested),
         pnl_pct |-> IF total_invested # RZero
                     THEN RMul(RDiv(SumField(holdings, "pl_eur"), total_invested), R(100))
                     ELSE RZero]

\* The answer of GET /portfolio/holdings once compute_holdings gave r.
HoldingsAnswered(r, computed) ==
    /\ world' = r.w
    /\ memo' = IF r.exc = "" THEN [present |-> TRUE, value |-> r.val] ELSE memo
    /\ last' = [op |-> "get_holdings", cached |-> world.price_cache,
                exc |-> r.exc, val |-> r.val, computed |-> computed,
                after_drop |-> hist.dropped,
                summary |-> IF r.exc = "" THEN HoldingsSummary(r.val.holdings) ELSE <<>>]
    /\ hist' = [hist EXCEPT !.dropped = FALSE]

\* GET /portfolio/holdings: compute_holdings(db), then the summary.
GetHoldings ==
    /\ nreq < MaxRequests
    /\ \E env \in HoldingsEnvs :
        HoldingsAnswered(IF memo.present THEN Return(world, memo.value)
                         ELSE ComputeHoldingsBody(world, env, txs),
                         ~ memo.present)
    /\ nreq' = nreq + 1
    /\ UNCHANGED txs
    /\ UNCHANGED <<fifoVars, threads>>

(***************************************************************************)
(* compute_holding_detail.                                                 *)
(***************************************************************************)
\* The first index of seq for which Test holds, 0 when there is none.
RECURSIVE FirstMatchFrom(_, _, _)
FirstMatchFrom(flags, i, n) ==
    IF i > n THEN 0 ELSE IF flags[i] THEN i ELSE FirstMatchFrom(flags, i + 1, n)

FirstMatch(flags) == FirstMatchFrom(flags, 1, Len(flags))

Truthy(opt) == opt # None /\ opt[1] # <<>>

\* First loop: the identifier of the holding, upper-cased, is the text.
MatchesExactly(candidate, normalized) == Upper(candidate.identifier) = normalized

\* Second loop: no hint of the parsed identifier contradicts the holding.
MatchesHints(candidate, hints) ==
    LET text == IF candidate.symbol_or_isin # <<>> THEN candidate.symbol_or_isin
                ELSE candidate.asset
        candidate_symbol == NormalizeSymbol(text)
        candidate_type == NormalizePortfolioType(candidate.type_portefeuille)
        candidate_account == NormalizeAccountId(TextOf(candidate.account_id))
    IN  /\ ~ (hints[1] # <<>> /\ candidate_symbol # hints[1])
        /\ ~ (Truthy(hints[2]) /\ candidate_type # hints[2][1])
        /\ ~ (Truthy(hints[3]) /\ candidate_account # hints[3][1])

\* Third loop: the code or the asset of the holding, upper-cased, is the text.
MatchesText(candidate, normalized) ==
    Upper(candidate.symbol_or_isin) = normalized \/ Upper(candidate.asset) = normalized

\* The index of the holding that the three loops choose, 0 when none does.
MatchHolding(holdings, identifier) ==
    LET normalized == StripUpper(identifier)
        hints == ParseIdentifier(identifier)
        exact == FirstMatch([i \in 1..Len(holdings) |-> MatchesExactly(holdings[i], normalized)])
        fields == FirstMatch([i \in 1..Len(holdings) |-> MatchesHints(holdings[i], hints)])
        loose == FirstMatch([i \in 1..Len(holdings) |-> MatchesText(holdings[i], normalized)])
    IN  IF exact # 0 THEN exact ELSE IF fields # 0 THEN fields ELSE loose

\* The filter of the transaction query: func.upper on the columns, the
\* account compared only when the holding has one.
RowSelected(tx, symbol_normalized, type_normalized, account_normalized) ==
    /\ \/ Upper(tx.symbol_or_isin) = symbol_normalized
       \/ Upper(tx.asset) = symbol_normalized
    /\ Upper(tx.portfolio_type) = type_normalized
    /\ account_normalized # <<>> =>
           (tx.account_id # None /\ Upper(tx.account_id[1]) = account_normalized)

RowsOfHolding(holding, rows) ==
    LET text == IF holding.symbol_or_isin # <<>> THEN holding.symbol_or_isin
                ELSE holding.asset
    IN  SelectSeq(rows, LAMBDA tx :
            RowSelected(tx, NormalizeSymbol(text),
                        NormalizePortfolioType(holding.type_portefeuille),
                        NormalizeAccountId(TextOf(holding.account_id))))

\* One step of the replay loop (lines 850-858).
DetailApply(a, fifo_key, tx) ==
    LET operation == Upper(tx.operation)
    IN  CASE operation = <<"B", "U", "Y">> ->
               Buy(a, fifo_key, tx.quantity, RAdd(tx.total_eur, tx.fee_eur))
          [] operation = <<"S", "E", "L", "L">> ->
               Sell(a, fifo_key, tx.quantity, tx.total_eur, tx.fee_eur).assets
          [] operation = <<"D", "I", "V", "I", "D", "E", "N", "D">> ->
               Dividend(a, fifo_key, RSub(tx.total_eur, tx.fee_eur))
          [] OTHER -> Dividend(a, fifo_key, tx.total_eur)

\* The replay loop: the ledger and one history point after every row.  The
\* rows carry no unit price, so the points are valued at the price of the
\* holding.
RECURSIVE DetailReplay(_, _, _, _, _)
DetailReplay(a, fifo_key, tx_rows, history, holding) ==
    IF tx_rows = <<>> THEN [assets |-> a, history |-> history]
    ELSE LET a1 == DetailApply(a, fifo_key, tx_rows[1])
             pos == CurrentPosition(a1, fifo_key).position
             market_value == RMul(holding.market_price_eur, pos[1])
         IN  DetailReplay(CurrentPosition(a1, fifo_key).assets, fifo_key, Tail(tx_rows),
                 Append(history,
                        [quantity |-> pos[1], invested_eur |-> pos[2],
                         market_price_eur |-> holding.market_price_eur,
                         market_value_eur |-> market_value,
                         pl_eur |-> RSub(market_value, pos[2]),
                         operation |-> IF tx_rows[1].operation # <<>>
                                       THEN Upper(tx_rows[1].operation)
                                       ELSE <<"U", "N", "K", "N", "O", "W", "N">>]),
                 holding)

RECURSIVE SumDividends(_)
SumDividends(tx_rows) ==
    IF tx_rows = <<>> THEN RZero
    ELSE RAdd(IF Upper(tx_rows[1].operation) = <<"D", "I", "V", "I", "D", "E", "N", "D">>
              THEN RSub(tx_rows[1].total_eur, tx_rows[1].fee_eur) ELSE RZero,
              SumDividends(Tail(tx_rows)))

DetailViewOf(holding, tx_rows) ==
    LET fifo_key == MakePortfolioKey(holding.type_portefeuille,
                        IF holding.symbol_or_isin # <<>> THEN holding.symbol_or_isin
                        ELSE holding.asset,
                        TextOf(holding.account_id))
        replay == DetailReplay(NoAssets, fifo_key, tx_rows, <<>>, holding)
    IN  [holding |-> holding,
         tx_rows |-> tx_rows,
         history |-> replay.history,
         realized_pnl_eur |-> IF fifo_key \in DOMAIN replay.assets
                              THEN replay.assets[fifo_key].realized_pnl ELSE RZero,
         dividends_eur |-> SumDividends(tx_rows)]

\* What compute_holding_detail gives once compute_holdings gave r.
HoldingDetailOf(r, identifier, rows) ==
    IF r.exc # "" THEN r
    ELSE IF MatchHolding(r.val.holdings, identifier) = 0
    THEN Raise(r.w, "HoldingNotFound")
    ELSE Return(r.w, DetailViewOf(r.val.holdings[MatchHolding(r.val.holdings, identifier)],
                                  RowsOfHolding(r.val.holdings[MatchHolding(r.val.holdings, identifier)], rows)))

DetailServed(identifier, r, d) ==
    /\ world' = r.w
    /\ memo' = IF r.exc = "" THEN [present |-> TRUE, value |-> r.val] ELSE memo
    /\ last' = [op |-> "compute_holding_detail", identifier |-> identifier,
                exc |-> d.exc, val |-> d.val,
                holdings |-> IF r.exc = "" THEN r.val.holdings ELSE <<>>]
    /\ hist' = [hist EXCEPT !.dropped = FALSE]

DetailAfterHoldings(identifier, r) == DetailServed(identifier, r, HoldingDetailOf(r, identifier, txs))

DetailIdentifiers ==
    {<<>>, <<" ", " ", " ">>, <<"P", "E", "A", ":", ":">>, <<"N", "O", "P", "E">>, <<"P", "E", "A", ":", ":", "A", "C", "M", "E">>, <<"p", "e", "a", ":", ":", "a", "1", ":", ":", "a", "c", "m", "e">>, <<" ", "a", "c", "m", "e", " ">>, <<"C", "T", "O", ":", ":", "A", "C", "M", "E">>, <<"E", "U", "R">>}

\* compute_holding_detail(db, identifier).
ComputeHoldingDetail ==
    /\ nreq < MaxRequests
    /\ \E identifier \in DetailIdentifiers : \E env \in HoldingsEnvs :
        IF identifier = <<>>
        THEN /\ last' = [op |-> "compute_holding_detail", identifier |-> identifier,
                         exc |-> "HoldingNotFound", val |-> <<>>, holdings |-> <<>>]
             /\ UNCHANGED <<world, memo, hist>>
        ELSE DetailAfterHoldings(identifier,
                 IF memo.present THEN Return(world, memo.value)
                 ELSE ComputeHoldingsBody(world, env, txs))
    /\ nreq' = nreq + 1
    /\ UNCHANGED txs
    /\ UNCHANGED <<fifoVars, threads>>

\* The TTL of the memoized holdings runs out.
ExpireMemo ==
    /\ memo.present
    /\ memo' = NoMemo
    /\ last' = [op |-> "expire"]
    /\ UNCHANGED <<world, txs, nreq, hist>>
    /\ UNCHANGED <<fifoVars, threads>>

(***************************************************************************)
(* Alias requests: resolve_quote_symbol on its own, and the settings API.  *)
(***************************************************************************)
MaxResolutions == 3

\* The identifiers of one instrument (exchange-suffix form, ISIN, combined
\* string) and a code no source knows.
AliasIdentifiers ==
    {<<"m", "c", ".", "p", "a">>, <<"F", "R", "0", "0", "0", "0", "1", "2", "3", "4", "5", "6">>, <<"M", "C", "-", "F", "R", "0", "0", "0", "0", "1", "2", "3", "4", "5", "6", "-", "P", "A">>, <<"X", "Y", "Z">>}

AliasEnvs ==
    [eprice : [Issues -> {"http"}],
     esearch : {"ok", "http"},
     elookup : {"ok", "http"},
     ysearch : {"ok", "http", "badjson"},
     yquote : {"http"},
     binance : {"http"}]

\* The alias maps a client may save under the quote-alias setting.
AliasPayloads == {EmptyMap, (<<" ", "x", "y", "z", " ">> :> <<"a", "c", "m", "e", ".", "p", "a">>)}

\* The ISIN that resolve_quote_symbol takes out of a combined string (lines
\* 308-315); the text itself otherwise.
NormalizedIdentifier(normalized_input) ==
    IF EURONEXT_COMBINED_PATTERN(normalized_input).ok
    THEN EURONEXT_COMBINED_PATTERN(normalized_input).isin
    ELSE IF EURONEXT_ISIN_MARKET_PATTERN(normalized_input).ok
    THEN EURONEXT_ISIN_MARKET_PATTERN(normalized_input).isin
    ELSE normalized_input

\* r resolved symbol through an external search: the call asked a search
\* endpoint and returned a key, not the identifier it was given.
ResolvedBySearch(symbol, r) ==
    /\ r.exc = ""
    /\ \E i \in 1..Len(r.w.calls) : r.w.calls[i].ok
    /\ r.val # StripUpper(symbol)
    /\ r.val # NormalizedIdentifier(StripUpper(symbol))

\* One call resolve_quote_symbol(symbol, type_portefeuille), with outcome r.
QuoteResolved(symbol, type_portefeuille, r) ==
    /\ world' = r.w
    /\ last' = [op |-> "resolve_quote_symbol", symbol |-> symbol,
                type |-> type_portefeuille, exc |-> r.exc, val |-> r.val,
                known |-> IF symbol \in DOMAIN hist.learned
                          THEN Some(hist.learned[symbol]) ELSE None,
                repeated |-> hist.recent = Some(symbol)]
    /\ hist' = IF ResolvedBySearch(symbol, r)
               THEN [hist EXCEPT !.learned = MapPut(@, symbol, r.val),
                                 !.recent = Some(symbol)]
               ELSE [hist EXCEPT !.recent = IF @ = Some(symbol) THEN @ ELSE None]

ResolveQuote ==
    /\ nreq < MaxResolutions
    /\ \E symbol \in AliasIdentifiers : \E env \in AliasEnvs :
        QuoteResolved(symbol, <<"P", "E", "A">>,
                      ResolveQuoteSymbol([world EXCEPT !.calls = <<>>, !.tried = <<>>],
                                         env, symbol, <<"P", "E", "A">>))
    /\ nreq' = nreq + 1
    /\ UNCHANGED <<txs, memo>>
    /\ UNCHANGED <<fifoVars, threads>>

\* POST /config/settings with the quote-alias key: the row is written and
\* committed, then clear_quote_alias_cache() drops the in-process map.
SaveSettings ==
    /\ \E payload \in AliasPayloads :
        /\ payload # world.stored_aliases
        /\ world' = [world EXCEPT !.stored_aliases = payload,
                                  !.quote_alias_cache = AliasAbsent]
    /\ last' = [op |-> "save_settings"]
    /\ hist' = [hist EXCEPT !.learned = EmptyMap, !.recent = None]
    /\ UNCHANGED <<txs, memo, nreq>>
    /\ UNCHANGED <<fifoVars, threads>>

(***************************************************************************)
(* importer.py.  A CSV row is a record of texts.  Of the fifteen functional*)
(* columns the rows of the model differ in source, operation and quantity; *)
(* the other columns hold the same text in every row and are left out.     *)
(* A stored transaction is [pk, transaction_uid, source, operation,        *)
(* quantity]; the session flushes before each query, so a query sees the   *)
(* rows added and changed earlier in the same import.                      *)
(***************************************************************************)
MaxImports == 2
MaxCsvRows == 2

\* value.strip(), None for the empty text and for the word "none".
NormalizeOptionalText(value) ==
    IF Strip(value) = <<>> \/ Upper(Strip(value)) = <<"N", "O", "N", "E">>
    THEN None
    ELSE Some(Strip(value))

RECURSIVE RStripZeros(_)
RStripZeros(s) ==
    IF s # <<>> /\ s[Len(s)] = "0"
    THEN RStripZeros(SubSeq(s, 1, Len(s) - 1)) ELSE s

RStripPoint(s) ==
    IF s # <<>> /\ s[Len(s)] = "." THEN SubSeq(s, 1, Len(s) - 1) ELSE s

\* _decimal_to_string(Decimal(text)) for an unsigned decimal text without
\* exponent or leading zero: the trailing zeros of the fraction are dropped.
DecimalToString(text) ==
    IF \E i \in 1..Len(text) : text[i] = "."
    THEN RStripPoint(RStripZeros(text))
    ELSE text

\* float(Decimal(text)): two such texts give the same float exactly when
\* they denote the same number.
FloatOfDecimal(text) == DecimalToString(text)

\* _parse_required_text and _parse_decimal_field raise on an empty cell.
RowParses(row) ==
    /\ Strip(row.source) # <<>>
    /\ Strip(row.operation) # <<>>
    /\ Strip(row.quantity) # <<>>

NormalizedFields(row) ==
    [id        |-> TextOf(NormalizeOptionalText(row.id)),
     source    |-> Strip(row.source),
     operation |-> Strip(row.operation),
     quantity  |-> DecimalToString(Strip(row.quantity))]

TRANSACTION_UID_SEPARATOR == "|"

\* The SHA-1 digest of the payload, taken to be free of collisions: the
\* digest of a payload is written as the payload in brackets.
Sha1Hex(payload) == <<"[">> \o payload \o <<"]">>

BuildTransactionUid(row_id, normalized_fields) ==
    IF NormalizeOptionalText(row_id) # None
    THEN TextOf(NormalizeOptionalText(row_id))
    ELSE <<"i", "m", "p", "o", "r", "t", "_">> \o Sha1Hex(normalized_fields.source
                               \o <<TRANSACTION_UID_SEPARATOR>>
                               \o normalized_fields.operation
                               \o <<TRANSACTION_UID_SEPARATOR>>
                               \o normalized_fields.quantity)

ComputeTransactionUidFromRow(row) ==
    BuildTransactionUid(NormalizedFields(row).id, NormalizedFields(row))

LookupData(row) ==
    [source    |-> NormalizedFields(row).source,
     operation |-> NormalizedFields(row).operation,
     quantity  |-> FloatOfDecimal(Strip(row.quantity))]

\* filter_by over the functional columns.
IsIdentical(t, data) ==
    /\ t.source = data.source
    /\ t.operation = data.operation
    /\ t.quantity = data.quantity

FindIdenticalTransaction(db, data) ==
    {i \in 1..Len(db) : IsIdentical(db[i], data)}

FindByUid(db, transaction_uid) ==
    {i \in 1..Len(db) : db[i].transaction_uid = transaction_uid}

\* setattr(target, field, value) for every field of data.
Overwritten(db, i, data, transaction_uid) ==
    [db EXCEPT ![i] = [pk |-> db[i].pk, transaction_uid |-> transaction_uid,
                       source |-> data.source, operation |-> data.operation,
                       quantity |-> data.quantity]]

Added(db, data, transaction_uid) ==
    Append(db, [pk |-> Len(db) + 1, transaction_uid |-> transaction_uid,
                source |-> data.source, operation |-> data.operation,
                quantity |-> data.quantity])

\* One turn of the loop of _import_transactions.  one_or_none() raises when
\* the query has more than one row.
ImportRow(db, row) ==
    LET transaction_uid == ComputeTransactionUidFromRow(row)
        data == LookupData(row)
        existing == FindByUid(db, transaction_uid)
        identical == FindIdenticalTransaction(db, data)
    IN  IF ~RowParses(row)
        THEN [exc |-> "ImportErrorDetail", db |-> db]
        ELSE IF Cardinality(existing) > 1
        THEN [exc |-> "MultipleResultsFound", db |-> db]
        ELSE IF existing # {}
        THEN [exc |-> "",
              db |-> Overwritten(db, CHOOSE i \in existing : TRUE, data, transaction_uid)]
        ELSE IF Cardinality(identical) > 1
        THEN [exc |-> "MultipleResultsFound", db |-> db]
        ELSE IF identical # {}
        THEN [exc |-> "",
              db |-> Overwritten(db, CHOOSE i \in identical : TRUE, data, transaction_uid)]
        ELSE [exc |-> "", db |-> Added(db, data, transaction_uid)]

RECURSIVE ImportRowsFrom(_, _)
ImportRowsFrom(r, rows) ==
    IF rows = <<>> \/ r.exc # ""
    THEN r
    ELSE ImportRowsFrom(ImportRow(r.db, Head(rows)), Tail(rows))

\* _import_transactions: the rows in file order, then one commit.
ImportTransactions(db, csv) == ImportRowsFrom([exc |-> "", db |-> db], csv)

\* The rows a client may send: the same purchase under two explicit ids (and
\* two spellings of its quantity), a sale without id, and a row whose source
\* cell is empty.
CsvRows ==
    {[id |-> <<"t", "x", "-", "1">>, source |-> <<"B", "R", "O", "K", "E", "R", "_", "A">>, operation |-> <<"B", "U", "Y">>, quantity |-> <<"1">>],
     [id |-> <<"t", "x", "-", "2">>, source |-> <<"B", "R", "O", "K", "E", "R", "_", "A">>, operation |-> <<"B", "U", "Y">>, quantity |-> <<"1", ".", "0">>],
     [id |-> <<>>, source |-> <<"B", "R", "O", "K", "E", "R", "_", "B">>, operation |-> <<"S", "E", "L", "L">>, quantity |-> <<"2">>],
     [id |-> <<>>, source |-> <<" ">>, operation |-> <<"B", "U", "Y">>, quantity |-> <<"1">>]}

CsvFiles ==
    UNION {[1..n -> CsvRows] : n \in 1..MaxCsvRows}

\* POST /transactions/import answered for the file csv, r being what
\* _import_transactions did: on success the rows are committed and the
\* holdings memo is cleared; on an exception nothing is committed and the
\* memo is left alone.
CsvImported(csv, r) ==
    /\ txs' = IF r.exc = "" THEN r.db ELSE txs
    /\ memo' = IF r.exc = "" THEN NoMemo ELSE memo
    /\ last' = [op |-> "import_csv", csv |-> csv, exc |-> r.exc, before |-> txs,
                previous |-> IF last.op = "import_csv" /\ last.exc = ""
                             THEN last.csv ELSE <<>>]
    /\ nreq' = nreq + 1
    /\ UNCHANGED <<world, hist>>
    /\ UNCHANGED <<fifoVars, threads>>

ImportCsv ==
    /\ nreq < MaxImports
    /\ \E csv \in CsvFiles : CsvImported(csv, ImportTransactions(txs, csv))

(***************************************************************************)
(* Requests served concurrently.  The synchronous handlers run on worker   *)
(* threads, and nothing orders the steps of two handlers: each action below*)
(* is one step of one thread.  compute_holdings is wrapped by              *)
(* cachetools.cached without a lock: the wrapper looks the key up, on a    *)
(* miss runs the body, and then stores the result.  A session reads the    *)
(* committed rows of the table.                                            *)
(***************************************************************************)
\* No mutation is between its start and its return.
NoMutationRunning ==
    \A t \in Workers : threads[t].pc \notin {"import_committed", "wipe_cleared"}

\* The computations in progress now overlap a mutation.
Overlapped == [t \in Workers |-> [threads[t] EXCEPT !.clean = FALSE]]

\* The rows imported while other requests run: a purchase and its sale.
ConcurrentRows ==
    {LedgerRow(<<"P", "E", "A">>, <<"B", "U", "Y">>, <<"A", "C", "M", "E">>, 2), LedgerRow(<<"P", "E", "A">>, <<"S", "E", "L", "L">>, <<"A", "C", "M", "E">>, 2)}

\* POST /transactions/import up to the importer's commit.
ImportCommits ==
    /\ Len(txs) < MaxTransactions
    /\ \E t \in Workers : \E row \in ConcurrentRows :
        /\ threads[t].pc = "idle"
        /\ txs' = Append(txs, row)
        /\ threads' = [Overlapped EXCEPT ![t].pc = "import_committed"]
    /\ last' = [op |-> "import"]
    /\ UNCHANGED <<world, memo, nreq, hist>>
    /\ UNCHANGED fifoVars

\* POST /transactions/import from compute_holdings.cache_clear() to the return.
ImportClears ==
    /\ \E t \in Workers :
        /\ threads[t].pc = "import_committed"
        /\ threads' = [threads EXCEPT ![t] = Idle]
    /\ memo' = NoMemo
    /\ last' = [op |-> "import"]
    /\ UNCHANGED <<world, txs, nreq, hist>>
    /\ UNCHANGED fifoVars

\* POST /config/wipe up to compute_holdings.cache_clear(): the deletes are
\* pending in the handler's session.
WipeClears ==
    /\ txs # <<>>
    /\ \E t \in Workers :
        /\ threads[t].pc = "idle"
        /\ threads' = [Overlapped EXCEPT ![t].pc = "wipe_cleared"]
    /\ memo' = NoMemo
    /\ last' = [op |-> "wipe"]
    /\ UNCHANGED <<world, txs, nreq, hist>>
    /\ UNCHANGED fifoVars

\* POST /config/wipe from db.commit() to the return.
WipeCommits ==
    /\ \E t \in Workers :
        /\ threads[t].pc = "wipe_cleared"
        /\ threads' = [threads EXCEPT ![t] = Idle]
    /\ txs' = <<>>
    /\ last' = [op |-> "wipe"]
    /\ UNCHANGED <<world, memo, nreq, hist>>
    /\ UNCHANGED fifoVars

\* compute_holdings(db), the lookup of the wrapper: a memoized value is
\* returned at once, otherwise the thread goes on to the body.
HoldingsLookedUp ==
    /\ nreq < MaxRequests
    /\ \E t \in Workers :
        /\ threads[t].pc = "idle"
        /\ IF memo.present
           THEN /\ last' = [op |-> "compute_holdings", exc |-> "", val |-> memo.value,
                            computed |-> FALSE, clean |-> NoMutationRunning]
                /\ UNCHANGED threads
           ELSE /\ threads' = [threads EXCEPT ![t] = [pc |-> "body",
                                                      clean |-> NoMutationRunning,
                                                      held |-> <<>>]]
                /\ UNCHANGED last
    /\ nreq' = nreq + 1
    /\ UNCHANGED <<world, txs, memo, hist>>
    /\ UNCHANGED fifoVars

\* The body of compute_holdings came to r.
BodyRan(t, r) ==
    /\ world' = r.w
    /\ threads' = [threads EXCEPT ![t].pc = "store",
                                  ![t].held = [exc |-> r.exc, val |-> r.val]]

\* compute_holdings(db), the body: the rows are read and valued.
HoldingsBodyRuns ==
    /\ \E t \in Workers : \E env \in HoldingsEnvs :
        /\ threads[t].pc = "body"
        /\ BodyRan(t, ComputeHoldingsBody(world, env, txs))
    /\ UNCHANGED <<txs, memo, last, nreq, hist>>
    /\ UNCHANGED fifoVars

\* compute_holdings(db), the end of the wrapper: the result is stored and
\* returned.
HoldingsStored ==
    /\ \E t \in Workers :
        /\ threads[t].pc = "store"
        /\ memo' = IF threads[t].held.exc = ""
                   THEN [present |-> TRUE, value |-> threads[t].held.val]
                   ELSE memo
        /\ last' = [op |-> "compute_holdings", exc |-> threads[t].held.exc,
                    val |-> threads[t].held.val, computed |-> TRUE,
                    clean |-> threads[t].clean]
        /\ threads' = [threads EXCEPT ![t] = Idle]
    /\ UNCHANGED <<world, txs, nreq, hist>>
    /\ UNCHANGED fifoVars

(***************************************************************************)
(* resolve_quote_symbol served concurrently.  A call reads the in-process  *)
(* alias map into its local variable aliases; the searches that follow are *)
(* network requests, during which other threads run; the call then stores  *)
(* a copy of its local map with the entries it learned.                    *)
(***************************************************************************)
\* Two identifiers that are resolved through different searches.
ConcurrentIdentifiers == {<<"m", "c", ".", "p", "a">>, <<"F", "R", "0", "0", "0", "0", "1", "2", "3", "4", "5", "6">>}

ConcurrentEnvs ==
    [eprice : [Issues -> {"http"}],
     esearch : {"ok", "http"},
     elookup : {"http"},
     ysearch : {"ok", "http"},
     yquote : {"http"},
     binance : {"http"}]

\* resolve_quote_symbol up to aliases = _load_quote_aliases().
AliasesLoaded ==
    /\ nreq < MaxResolutions
    /\ \E t \in Workers : \E symbol \in ConcurrentIdentifiers :
        /\ threads[t].pc = "idle"
        /\ world' = LoadQuoteAliases(world).w
        /\ threads' = [threads EXCEPT ![t] =
                           [pc |-> "resolving", clean |-> FALSE,
                            held |-> [symbol |-> symbol,
                                      aliases |-> LoadQuoteAliases(world).val]]]
    /\ nreq' = nreq + 1
    /\ UNCHANGED <<txs, memo, last, hist>>
    /\ UNCHANGED fifoVars

\* The world as the thread that holds the local map aliases sees it.
SeenWith(w, aliases) ==
    [w EXCEPT !.quote_alias_cache = [present |-> TRUE, map |-> aliases],
              !.calls = <<>>, !.tried = <<>>]

\* The rest of the call came to r; the alias map is replaced only if the call
\* stored an updated copy.
ResolutionEnded(t, symbol, seen, r) ==
    /\ world' = IF r.w.quote_alias_cache = seen.quote_alias_cache
                THEN [r.w EXCEPT !.quote_alias_cache = world.quote_alias_cache]
                ELSE r.w
    /\ last' = [op |-> "resolve_quote_symbol", symbol |-> symbol,
                type |-> <<"P", "E", "A">>, exc |-> r.exc, val |-> r.val,
                stored |-> r.w.quote_alias_cache # seen.quote_alias_cache]
    /\ hist' = IF ResolvedBySearch(symbol, r)
               THEN [hist EXCEPT !.learned = MapPut(@, symbol, r.val)]
               ELSE hist
    /\ threads' = [threads EXCEPT ![t] = Idle]

\* resolve_quote_symbol from the lookups in the local map to the return.
AliasesSearched ==
    /\ \E t \in Workers : \E env \in ConcurrentEnvs :
        /\ threads[t].pc = "resolving"
        /\ ResolutionEnded(t, threads[t].held.symbol,
                           SeenWith(world, threads[t].held.aliases),
                           ResolveQuoteSymbol(SeenWith(world, threads[t].held.aliases),
                                              env, threads[t].held.symbol, <<"P", "E", "A">>))
    /\ UNCHANGED <<txs, memo, nreq>>
    /\ UNCHANGED fifoVars

(***************************************************************************)
(* Specifications.                                                         *)
(***************************************************************************)
Init ==
    /\ assets = NoAssets
    /\ prev = NoAssets
    /\ call = NoCall
    /\ ret = "none"
    /\ nops = 0
    /\ world = EmptyWorld
    /\ txs = <<>>
    /\ memo = NoMemo
    /\ last = [op |-> "none"]
    /\ nreq = 0
    /\ hist = NoHistory
    /\ threads = [t \in Workers |-> Idle]

FifoNext == FifoBuy \/ FifoSell \/ FifoDividend \/ FifoCurrentPosition

SpecFifo == Init /\ [][FifoNext]_vars

PriceNext == PriceLookup \/ ExpirePrice \/ ExpireAliases \/ ExpireEuronext

SpecPrice == Init /\ [][PriceNext]_vars

HoldingsNext == ImportTransaction \/ ComputeHoldings \/ ExpireMemo \/ ExpirePrice

SpecHoldings == Init /\ [][HoldingsNext]_vars

EditsNext ==
    \/ ImportLedgerRow
    \/ UpdateTransaction
    \/ DeleteTransaction
    \/ WipeData
    \/ ComputeHoldings
    \/ GetHoldings
    \/ ExpireMemo

SpecEdits == Init /\ [][EditsNext]_vars

InstrumentsNext == ImportInstrumentRow \/ ComputeHoldings \/ ExpireMemo

SpecInstruments == Init /\ [][InstrumentsNext]_vars

DetailNext == ImportDetailRow \/ ComputeHoldingDetail \/ ExpireMemo

SpecDetail == Init /\ [][DetailNext]_vars

KeysNext == NormalizeKeyText \/ IdentifierRoundTrip

SpecKeys == Init /\ [][KeysNext]_vars

AliasNext == ResolveQuote \/ SaveSettings \/ ExpireAliases \/ ExpireEuronext

SpecAlias == Init /\ [][AliasNext]_vars

CashNext == ImportCashRow \/ ComputeHoldings \/ ExpireMemo

SpecCash == Init /\ [][CashNext]_vars

ImportNext == ImportCsv

StaleNext == RepeatedPriceLookup \/ ExpireAliases \/ ExpireEuronext

SpecStale == Init /\ [][StaleNext]_vars

ResolveNext == AliasesLoaded \/ AliasesSearched

SpecResolve == Init /\ [][ResolveNext]_vars

ConcurrentNext ==
    \/ ImportCommits
    \/ ImportClears
    \/ WipeClears
    \/ WipeCommits
    \/ HoldingsLookedUp
    \/ HoldingsBodyRuns
    \/ HoldingsStored

SpecConcurrent == Init /\ [][ConcurrentNext]_vars

SpecImport == Init /\ [][ImportNext]_vars

Next == FifoNext \/ PriceNext \/ HoldingsNext \/ AliasNext \/ EditsNext \/ InstrumentsNext \/ DetailNext \/ KeysNext
            \/ ImportNext \/ ConcurrentNext \/ CashNext \/ ResolveNext
            \/ StaleNext

Spec == Init /\ [][Next]_vars

(***************************************************************************)
(* Properties of the lot ledger.                                           *)
(***************************************************************************)
PrevLots(k) == IF k \in DOMAIN prev THEN prev[k].lots ELSE <<>>
PrevRealized(k) == IF k \in DOMAIN prev THEN prev[k].realized_pnl ELSE RZero

PrefixQty(lots, i) == SumQty(SubSeq(lots, 1, i))
PrefixCost(lots, i) == SumCost(SubSeq(lots, 1, i))

\* Index of the lot in which a sale of q ends: the first lot at which the
\* running quantity reaches q.
LastTouched(lots, q) ==
    CHOOSE i \in 1..Len(lots) :
        /\ RLe(q, PrefixQty(lots, i))
        /\ \A j \in 1..(i - 1) : RLt(PrefixQty(lots, j), q)

\* The closed form of a sale of q that the queue can satisfy.
ExpectedSale(lots, q, net) ==
    LET k == LastTouched(lots, q)
        lot == lots[k]
        consumed == RSub(q, PrefixQty(lots, k - 1))
        whole == consumed = lot.quantity
        share == IF whole THEN lot.cost_basis
                 ELSE RDiv(RMul(lot.cost_basis, consumed), lot.quantity)
        rest == SubSeq(lots, k + 1, Len(lots))
    IN  [realized |-> RSub(RSub(net, PrefixCost(lots, k - 1)), share),
         lots |-> IF whole THEN rest
                  ELSE <<[quantity |-> RSub(lot.quantity, consumed),
                          cost_basis |-> RSub(lot.cost_basis, share)]>> \o rest]

SaleWithinPosition ==
    /\ call.op = "sell"
    /\ RLe(call.quantity, SumQty(PrevLots(call.key)))

SaleAsClaimed ==
    LET e == ExpectedSale(PrevLots(call.key), call.quantity,
                          RSub(call.total, call.fee))
    IN  /\ ret = e.realized
        /\ assets[call.key].lots = e.lots
        /\ CurrentPosition(assets, call.key).position = <<SumQty(e.lots), SumCost(e.lots)>>

Oversell ==
    /\ call.op = "sell"
    /\ RGt(call.quantity, SumQty(PrevLots(call.key)))

Shortfall == RSub(call.quantity, SumQty(PrevLots(call.key)))

SaleMade == call.op = "sell" /\ RGt(call.quantity, RZero)

\* The cost basis that the last call removed from the queue of its key.
CostRemoved == RSub(SumCost(PrevLots(call.key)), SumCost(assets[call.key].lots))

QuantityRemoved == RSub(SumQty(PrevLots(call.key)), SumQty(assets[call.key].lots))

RMin(x, y) == IF RLe(x, y) THEN x ELSE y

QuantityAccounted ==
    IF RGt(Shortfall, RZero) /\ RLe(Shortfall, R(OversellEps))
    THEN SumQty(PrevLots(call.key))
    ELSE call.quantity

SmallShortfallSale ==
    /\ SaleMade
    /\ PrevLots(call.key) # <<>>
    /\ RGt(Shortfall, RZero) /\ RLe(Shortfall, R(OversellEps))
    /\ RAdd(ret, CostRemoved) # RSub(call.total, call.fee)

\* C3: dividend(key, amount) adds exactly amount to the realized P&L of
\* that key, leaves the lots of that key as they were and leaves every other
\* key's state as it was.
C3_DividendAdditivity ==
    call.op = "dividend" =>
        /\ assets[call.key].realized_pnl = RAdd(PrevRealized(call.key), call.total)
        /\ assets[call.key].lots = PrevLots(call.key)
        /\ DOMAIN assets = DOMAIN prev \cup {call.key}
        /\ \A k \in DOMAIN prev \ {call.key} : assets[k] = prev[k]

\* A dividend on a key that holds lots while another key holds lots too.
C3_Witness ==
    /\ call.op = "dividend"
    /\ PrevLots(call.key) # <<>>
    /\ \E k \in DOMAIN prev \ {call.key} : prev[k].lots # <<>>

\* C4: every lot of every queue has quantity >= 0; after a sell the queue is
\* a suffix of the queue before, and its head lot, when the sale consumed
\* part of it, keeps a strictly positive quantity (a lot brought to zero is
\* removed).
C4_LotQuantities ==
    /\ \A k \in DOMAIN assets : \A i \in 1..Len(assets[k].lots) :
           RLe(RZero, assets[k].lots[i].quantity)
    /\ call.op = "sell" =>
         LET before == PrevLots(call.key)
             after == assets[call.key].lots
             off == Len(before) - Len(after)
         IN  /\ off >= 0
             /\ \A i \in 2..Len(after) : after[i] = before[off + i]
             /\ (after # <<>> /\ after[1] # before[off + 1]) =>
                    /\ RGt(after[1].quantity, RZero)
                    /\ RLt(after[1].quantity, before[off + 1].quantity)

\* A sale that used up one lot exactly and one that reduced a lot.
C4_Witness ==
    /\ call.op = "sell"
    /\ PrevLots(call.key) # <<>>
    /\ RGt(call.quantity, RZero)
    /\ \/ /\ call.quantity = PrevLots(call.key)[1].quantity
          /\ Len(assets[call.key].lots) = Len(PrevLots(call.key)) - 1
       \/ /\ RLt(call.quantity, PrevLots(call.key)[1].quantity)
          /\ Len(assets[call.key].lots) = Len(PrevLots(call.key))

\* C5: current_position(key) leaves the ledger as it was (same keys, same
\* lots, same realized P&L) and returns (sum of quantities, sum of costs).
C5_PureQuery ==
    call.op = "current_position" =>
        /\ assets = prev
        /\ ret = <<SumQty(PrevLots(call.key)), SumCost(PrevLots(call.key))>>

(***************************************************************************)
(* Properties of the position keys and of the holdings.                    *)
(***************************************************************************)
\* The instrument code and the position key compute_holdings derives from a
\* row.
CodeOfRow(tx) ==
    LET raw_symbol == Strip(IF tx.symbol_or_isin # <<>> THEN tx.symbol_or_isin ELSE tx.asset)
    IN  IF raw_symbol # <<>> THEN raw_symbol ELSE tx.asset

KeyOfRow(tx) == MakePortfolioKey(tx.portfolio_type, CodeOfRow(tx), TextOf(tx.account_id))

RowsOfKey(key) == SelectSeq(txs, LAMBDA tx : KeyOfRow(tx) = key)

KeysOfRows == {KeyOfRow(txs[i]) : i \in 1..Len(txs)}

\* The position of a key when only the rows of that key are replayed.
OwnPosition(key) ==
    CurrentPosition(ReplayTransactions(EmptyPass, RowsOfKey(key)).assets, key).position

HoldingsReturned == last.op = "compute_holdings" /\ last.exc = ""

\* Rows of one instrument in different buckets or under different accounts
\* have different keys.
KeysDistinct ==
    \A i, j \in 1..Len(txs) :
        (/\ NormalizeSymbol(CodeOfRow(txs[i])) = NormalizeSymbol(CodeOfRow(txs[j]))
         /\ \/ NormalizePortfolioType(txs[i].portfolio_type)
                 # NormalizePortfolioType(txs[j].portfolio_type)
            \/ NormalizeAccountId(TextOf(txs[i].account_id))
                 # NormalizeAccountId(TextOf(txs[j].account_id)))
        => KeyOfRow(txs[i]) # KeyOfRow(txs[j])

\* Replaying a row changes the ledger entry of no key but its own.
RowsIsolated ==
    \A i \in 1..Len(txs) :
        LET before == ReplayTransactions(EmptyPass, SubSeq(txs, 1, i - 1))
            after == ApplyTransaction(before, txs[i])
        IN  \A k \in DOMAIN before.assets \ {KeyOfRow(txs[i])} :
                /\ k \in DOMAIN after.assets
                /\ after.assets[k] = before.assets[k]

\* One view per open key, each computed from the rows of its key.
ViewsSeparate ==
    HoldingsReturned =>
        LET hs == last.val.holdings
        IN  /\ \A i, j \in 1..Len(hs) : i # j => hs[i].identifier # hs[j].identifier
            /\ \A key \in KeysOfRows :
                   RGt(OwnPosition(key)[1], R(QtyEps)) =>
                       \E i \in 1..Len(hs) : hs[i].identifier = BuildIdentifierFromKey(key)
            /\ \A i \in 1..Len(hs) :
                   \E key \in KeysOfRows :
                       /\ hs[i].identifier = BuildIdentifierFromKey(key)
                       /\ hs[i].quantity = OwnPosition(key)[1]
                       /\ hs[i].invested_eur = OwnPosition(key)[2]
                       /\ hs[i].pl_eur = RSub(RMul(hs[i].market_price_eur, OwnPosition(key)[1]),
                                              OwnPosition(key)[2])

\* C6: rows with the same instrument code but a different (normalized) bucket
\* or a different (normalized) account have different position keys; a buy,
\* sell or dividend replayed for one key leaves the lots and realized P&L of
\* every other key as they were; and compute_holdings returns one holding
\* view per open key whose quantity, invested amount and P&L are those of the
\* rows of that key alone.
C6_SeparatePositions == KeysDistinct /\ RowsIsolated /\ ViewsSeparate

\* Two views of one instrument, in two buckets or under two accounts, after a
\* second row was replayed next to the first key.
C6_Witness ==
    /\ HoldingsReturned
    /\ Len(txs) = 2
    /\ KeyOfRow(txs[1]) # KeyOfRow(txs[2])
    /\ \E i, j \in 1..Len(last.val.holdings) :
           /\ i # j
           /\ last.val.holdings[i].asset = last.val.holdings[j].asset
           /\ \/ last.val.holdings[i].type_portefeuille # last.val.holdings[j].type_portefeuille
              \/ last.val.holdings[i].account_id # last.val.holdings[j].account_id

(***************************************************************************)
(* Properties of the price lookups.                                        *)
(***************************************************************************)
PriceLooked == last.op = "get_market_price"

EquityLooked == PriceLooked /\ Upper(last.type) # <<"C", "R", "Y", "P", "T", "O">>

EquityQuoteCalled == \E i \in 1..Len(world.calls) : world.calls[i].src = "yahoo_quote"

RegionalSucceeded == \E i \in 1..Len(world.tried) : world.tried[i].ok

\* C7: in a lookup outside the crypto bucket the Euronext candidates are tried
\* in their order; the first one that succeeds ends the attempts, its price is
\* stored under the cache key and returned, and the Yahoo quote endpoint is
\* not called; the Yahoo quote endpoint is called only when every candidate
\* was tried and failed.
C7_RegionalFirst ==
    EquityLooked =>
        /\ Len(world.tried) <= Len(last.candidates)
        /\ \A i \in 1..Len(world.tried) :
               /\ world.tried[i].arg = last.candidates[i]
               /\ world.tried[i].ok => i = Len(world.tried)
        /\ RegionalSucceeded =>
               /\ last.exc = ""
               /\ last.val = EuronextPrice
               /\ MapGet(world.price_cache, last.cache_key) = last.val
               /\ ~ EquityQuoteCalled
        /\ (~ RegionalSucceeded /\ last.cache_key # <<>>) =>
               Len(world.tried) = Len(last.candidates)
        /\ EquityQuoteCalled =>
               /\ Len(world.tried) = Len(last.candidates)
               /\ ~ RegionalSucceeded

\* The first of two candidates failed and the second one answered.
C7_Witness ==
    /\ EquityLooked
    /\ Len(last.candidates) >= 2
    /\ Len(world.tried) = 2
    /\ ~ world.tried[1].ok
    /\ world.tried[2].ok
    /\ last.exc = ""

EverySourceFailed ==
    /\ \A i \in 1..Len(world.calls) : ~ world.calls[i].ok
    /\ ~ RegionalSucceeded

\* C8: a lookup whose pair has a price P in the price cache, and during which
\* every source fails, returns P.
C8_StalePrice ==
    (/\ PriceLooked
     /\ last.cache_key \in DOMAIN last.cached
     /\ EverySourceFailed)
    => (last.exc = "" /\ last.val = last.cached[last.cache_key])

\* C9: a lookup that fails, fails with MarketPriceUnavailable.
C9_OnlyPriceUnavailable ==
    (PriceLooked /\ last.exc # "") => last.exc = "MarketPriceUnavailable"

CryptoLooked == PriceLooked /\ Upper(last.type) = <<"C", "R", "Y", "P", "T", "O">>

\* The trading pair of an instrument code: the code followed by EUR, or the
\* code itself when it ends in EUR.
PairOfCode(code) ==
    IF EndsWith(code, <<"E", "U", "R">>) THEN code ELSE code \o <<"E", "U", "R">>

\* C11: a lookup in the crypto bucket makes one external request, to the
\* Binance ticker, for the pair made of the instrument code (trimmed, in upper
\* case) and EUR; it tries no regional candidate, and it does not load the
\* alias map.
C11_CryptoDirect ==
    CryptoLooked =>
        /\ Len(world.calls) = 1
        /\ world.calls[1].src = "binance"
        /\ world.calls[1].arg = PairOfCode(StripUpper(last.symbol))
        /\ world.tried = <<>>
        /\ last.candidates = <<>>
        /\ world.quote_alias_cache.present = last.aliases_loaded

\* The same without the pair: the only source asked is the Binance ticker,
\* once.
CryptoOnlySource ==
    CryptoLooked =>
        /\ Len(world.calls) = 1
        /\ world.calls[1].src = "binance"
        /\ world.tried = <<>>
        /\ last.candidates = <<>>
        /\ world.quote_alias_cache.present = last.aliases_loaded

SourcePrices == {EuronextPrice, YahooPrice, BinancePrice}

\* C10: compute_holdings returns; every open key has its view; a view is
\* priced by a source or, failing that, at its average cost with a P&L of 0.
C10_HoldingsNeverFail ==
    last.op = "compute_holdings" =>
        /\ last.exc = ""
        /\ \A key \in KeysOfRows :
               RGt(OwnPosition(key)[1], R(QtyEps)) =>
                   \E i \in 1..Len(last.val.holdings) :
                       last.val.holdings[i].identifier = BuildIdentifierFromKey(key)
        /\ \A i \in 1..Len(last.val.holdings) :
               LET h == last.val.holdings[i]
               IN  \/ h.market_price_eur \in SourcePrices
                   \/ /\ h.market_price_eur = RDiv(h.invested_eur, h.quantity)
                      /\ h.pl_eur = RZero

(***************************************************************************)
(* Properties of the alias map.                                            *)
(***************************************************************************)
QuoteLooked == last.op = "resolve_quote_symbol"

\* C12 as stated: the later call returns the key the identifier was resolved
\* to, and asks no external source.
C12_AsStated ==
    (QuoteLooked /\ last.known # None) =>
        /\ last.exc = ""
        /\ last.val = last.known[1]
        /\ world.calls = <<>>

\* The entries the in-process alias map keeps for an identifier: under its
\* text and under its ISIN.
AliasEntriesOf(symbol) ==
    {MapGet(world.quote_alias_cache.map, k) :
        k \in {StripUpper(symbol), NormalizedIdentifier(StripUpper(symbol))}} \ {<<>>}

\* C12 amended: once an identifier was resolved through an external search,
\* a later call for it, while the in-process alias map is kept, asks no
\* external source and returns the entry the alias map keeps for the
\* identifier (under its text or under its ISIN).  That entry is the key
\* learned first when no other identifier was resolved in between; the
\* resolution of another form of the same instrument (MC.PA after its ISIN)
\* replaces the entry kept under the ISIN.
C12_AliasMemoized ==
    (QuoteLooked /\ last.known # None) =>
        /\ last.exc = ""
        /\ world.calls = <<>>
        /\ last.val \in AliasEntriesOf(last.symbol)
        /\ last.repeated => last.val = last.known[1]

\* A second call for an identifier learned before, served from the alias map.
C12_Witness ==
    /\ QuoteLooked
    /\ last.known # None
    /\ last.repeated
    /\ last.val = last.known[1]
    /\ world.calls = <<>>

\* The alias map as _load_quote_aliases reads it from the settings store.
PersistedAliases == LoadQuoteAliases([world EXCEPT !.quote_alias_cache = AliasAbsent]).val

\* C13: every alias learned by a resolution is in the persisted alias map.
C13_AliasPersisted ==
    \A symbol \in DOMAIN hist.learned :
        \/ MapGet(PersistedAliases, StripUpper(symbol)) = hist.learned[symbol]
        \/ \E k \in DOMAIN PersistedAliases : PersistedAliases[k] = hist.learned[symbol]

(***************************************************************************)
(* Properties of the memoized holdings.                                    *)
(***************************************************************************)
HoldingsCalled == last'.op = "compute_holdings" /\ nreq' = nreq + 1

\* C14: a compute_holdings call that returns leaves its result memoized, and
\* a call made while a result is memoized returns that result, without running
\* the body (no query of the transactions) and without touching the caches or
\* asking any price source.
C14_Memoized ==
    [][/\ (HoldingsCalled /\ last'.exc = "") =>
              (memo'.present /\ memo'.value = last'.val)
       /\ (HoldingsCalled /\ memo.present) =>
              /\ last'.exc = ""
              /\ last'.val = memo.value
              /\ ~ last'.computed
              /\ world' = world
              /\ memo' = memo]_vars

\* A second call served from the memoized result of a first one that found
\* a holding.
C14_Witness ==
    /\ last.op = "compute_holdings"
    /\ ~ last.computed
    /\ memo.present
    /\ last.val = memo.value
    /\ last.val.holdings # <<>>

OpenKeys == {key \in KeysOfRows : RGt(OwnPosition(key)[1], R(QtyEps))}

\* val is what the rows of the table give: the realized total of their replay,
\* one view per open key with the quantity and invested amount of that key,
\* and totals that are the sums over these views.
ReflectsRows(val) ==
    /\ val.totals.realized_pnl = ReplayTransactions(EmptyPass, txs).realized_total
    /\ {val.holdings[i].identifier : i \in 1..Len(val.holdings)}
         = {BuildIdentifierFromKey(key) : key \in OpenKeys}
    /\ \A i \in 1..Len(val.holdings) : \E key \in OpenKeys :
           /\ val.holdings[i].identifier = BuildIdentifierFromKey(key)
           /\ val.holdings[i].quantity = OwnPosition(key)[1]
           /\ val.holdings[i].invested_eur = OwnPosition(key)[2]
    /\ val.totals.total_invested = SumField(val.holdings, "invested_eur")
    /\ val.totals.total_value = SumField(val.holdings, "market_value_eur")
    /\ txs = <<>> =>
           /\ val.holdings = <<>>
           /\ val.totals = [total_value |-> RZero, total_invested |-> RZero,
                            realized_pnl |-> RZero, latent_pnl |-> RZero]

\* C15: what compute_holdings returns is computed from the rows the table
\* holds at the time of the call; in particular the call that follows an
\* import, an update, a delete or a wipe does not return the result memoized
\* before it, and after a wipe it returns no holding and totals of 0.
C15_FreshAfterMutation ==
    HoldingsReturned =>
        /\ ReflectsRows(last.val)
        /\ memo.present /\ memo.value = last.val

\* A call made after a wipe dropped a memoized result: it ran the body and
\* found no holding.
C15_Witness ==
    /\ HoldingsReturned
    /\ last.after_drop
    /\ last.computed
    /\ txs = <<>>
    /\ last.val.holdings = <<>>

\* A call of compute_holdings, direct or behind GET /portfolio/holdings, that
\* returned.
TotalsReturned == last.op \in {"compute_holdings", "get_holdings"} /\ last.exc = ""

\* C16: in what compute_holdings returns, each holding's pl_eur is its market
\* value minus its invested amount, latent_pnl is the sum of the pl_eur, and
\* total_value - total_invested equals latent_pnl; the summary of
\* GET /portfolio/holdings reports that same difference as pnl_eur.
C16_TotalsConsistent ==
    /\ TotalsReturned =>
         /\ \A i \in 1..Len(last.val.holdings) :
                last.val.holdings[i].pl_eur =
                    RSub(last.val.holdings[i].market_value_eur,
                         last.val.holdings[i].invested_eur)
         /\ last.val.totals.latent_pnl = SumField(last.val.holdings, "pl_eur")
         /\ RSub(last.val.totals.total_value, last.val.totals.total_invested)
                = last.val.totals.latent_pnl
    /\ (last.op = "get_holdings" /\ last.exc = "") =>
         /\ last.summary.pnl_eur
                = RSub(last.val.totals.total_value, last.val.totals.total_invested)
         /\ last.summary.pnl_eur = last.val.totals.latent_pnl

\* GET /portfolio/holdings answered with two holdings whose unrealized
\* gains or losses add up to a latent P&L that is not 0.
C16_Witness ==
    /\ last.op = "get_holdings"
    /\ last.exc = ""
    /\ Len(last.val.holdings) = 2
    /\ last.val.totals.latent_pnl # RZero
    /\ \E i \in 1..2 : last.val.holdings[i].pl_eur # last.val.totals.latent_pnl

\* The ledger that the pass over the rows of the table builds.
LedgerOfRows == ReplayTransactions(EmptyPass, txs).assets

RECURSIVE SumRealized(_, _)
SumRealized(a, keys) ==
    IF keys = {} THEN RZero
    ELSE LET key == CHOOSE k \in keys : TRUE
         IN  RAdd(a[key].realized_pnl, SumRealized(a, keys \ {key}))

IsCurrencyRow(tx) ==
    ContainsFiatCode(Strip(tx.asset)) \/ ContainsFiatCode(Strip(tx.symbol_or_isin))

\* The cash-movement adjustment of one row: total - fee for the sale of a
\* currency, total for an operation other than BUY, SELL and DIVIDEND, and
\* nothing otherwise.
CashAdjustment(tx) ==
    IF Upper(tx.operation) = <<"S", "E", "L", "L">>
    THEN IF IsCurrencyRow(tx) THEN RSub(tx.total_eur, tx.fee_eur) ELSE RZero
    ELSE IF Upper(tx.operation) \in {<<"B", "U", "Y">>, <<"D", "I", "V", "I", "D", "E", "N", "D">>} THEN RZero
    ELSE tx.total_eur

RECURSIVE SumAdjustments(_)
SumAdjustments(rows) ==
    IF rows = <<>> THEN RZero
    ELSE RAdd(CashAdjustment(rows[1]), SumAdjustments(Tail(rows)))

\* C17: the realized_pnl total that compute_holdings returns is the sum of the
\* realized P&L of every position state of the ledger, positions without open
\* lots included, plus total - fee for each currency SELL and total for each
\* operation other than BUY, SELL and DIVIDEND.
C17_RealizedTotal ==
    TotalsReturned =>
        last.val.totals.realized_pnl =
            RAdd(SumRealized(LedgerOfRows, DOMAIN LedgerOfRows), SumAdjustments(txs))

\* A purchase and the sale that closed it: no holding is listed, and the
\* realized P&L of the closed position is the realized total.
C17_Witness ==
    /\ TotalsReturned
    /\ last.val.holdings = <<>>
    /\ \E i \in 1..Len(txs) : Upper(txs[i].operation) = <<"B", "U", "Y">>
    /\ \E key \in DOMAIN LedgerOfRows :
           /\ LedgerOfRows[key].lots = <<>>
           /\ LedgerOfRows[key].realized_pnl # RZero
           /\ last.val.totals.realized_pnl = LedgerOfRows[key].realized_pnl

(***************************************************************************)
(* Properties of the key normalizers and of the identifier.                *)
(***************************************************************************)
\* The forms of one character that differ in case only.
CaseForms(c) ==
    {c} \cup {UpperSeq[i] : i \in {j \in 1..26 : LowerSeq[j] = c}}
        \cup {LowerSeq[i] : i \in {j \in 1..26 : UpperSeq[j] = c}}

CaseVariants(s) ==
    {t \in [1..Len(s) -> UNION {CaseForms(s[k]) : k \in 1..Len(s)}] :
        \A k \in 1..Len(s) : t[k] \in CaseForms(s[k])}

Paddings == {<<>>} \cup {<<c>> : c \in Whitespace}

\* s with some of its leading and trailing whitespace taken away.
Trimmings(s) ==
    {SubSeq(s, a + 1, b) : a \in 0..Len(s), b \in 0..Len(s)} \cap
    {SubSeq(s, a + 1, b) : a \in {i \in 0..Len(s) : AllIn(SubSeq(s, 1, i), Whitespace)},
                           b \in {i \in 0..Len(s) : AllIn(SubSeq(s, i + 1, Len(s)), Whitespace)}}

\* The texts that differ from s in letter case and surrounding whitespace
\* only.
TextVariants(s) ==
    UNION {{p \o c \o q : p \in Paddings, q \in Paddings, c \in CaseVariants(core)} :
              core \in Trimmings(s)}

KeyTextNormalized == last.op = "normalize"

\* C18: each of the three normalizers gives its own result back when applied
\* to it, gives one value for all texts that differ in case and surrounding
\* whitespace only, and the bucket of a blank or absent text is PEA.
C18_NormalizersStable ==
    KeyTextNormalized =>
        /\ NormalizePortfolioType(last.bucket) = last.bucket
        /\ NormalizeSymbol(last.symbol) = last.symbol
        /\ NormalizeAccountId(last.account) = last.account
        /\ \A y \in TextVariants(TextOf(last.text)) :
               /\ NormalizePortfolioType(y) = last.bucket
               /\ NormalizeSymbol(y) = last.symbol
               /\ NormalizeAccountId(y) = last.account
        /\ AllIn(TextOf(last.text), Whitespace) => last.bucket = <<"P", "E", "A">>

\* A text in lower case between whitespace was normalized.
C18_Witness ==
    /\ KeyTextNormalized
    /\ last.text = Some(<<" ", "a", "\t">>)
    /\ last.symbol = <<"A">>
    /\ last.bucket = <<"A">>
    /\ last.account = <<"A">>

IdentifierParsed == last.op = "identifier"

\* C20: the parser reads, in the identifier built from a key, the code, the
\* bucket and the account of that key, the account being absent when the key
\* has none.
C20_IdentifierReversible ==
    IdentifierParsed =>
        last.parsed = <<last.key[2], Some(last.key[1]),
                        IF last.key[3] = <<>> THEN None ELSE Some(last.key[3])>>

\* The same, for the codes that do not hold the separator.
IdentifierReversibleWithoutSeparator ==
    (IdentifierParsed /\ Len(SplitIdentifierFrom(last.key[2], <<>>)) = 1) =>
        last.parsed = <<last.key[2], Some(last.key[1]),
                        IF last.key[3] = <<>> THEN None ELSE Some(last.key[3])>>

(***************************************************************************)
(* Properties of the instrument codes.                                     *)
(***************************************************************************)
\* The ticker and the ISIN that a code names: both for a combined string, the
\* ISIN alone for an ISIN, the ticker alone otherwise.
InstrumentNamedBy(code) ==
    LET text == StripUpper(code)
    IN  IF EURONEXT_COMBINED_PATTERN(text).ok
        THEN [symbol |-> EURONEXT_COMBINED_PATTERN(text).symbol,
              isin |-> EURONEXT_COMBINED_PATTERN(text).isin]
        ELSE IF IsISIN(text) THEN [symbol |-> <<>>, isin |-> text]
        ELSE [symbol |-> text, isin |-> <<>>]

\* Two rows of one bucket and account whose codes name the same ticker or the
\* same ISIN.
SameInstrument(a, b) ==
    /\ NormalizePortfolioType(a.portfolio_type) = NormalizePortfolioType(b.portfolio_type)
    /\ NormalizeAccountId(TextOf(a.account_id)) = NormalizeAccountId(TextOf(b.account_id))
    /\ \/ /\ InstrumentNamedBy(CodeOfRow(a)).isin # <<>>
          /\ InstrumentNamedBy(CodeOfRow(a)).isin = InstrumentNamedBy(CodeOfRow(b)).isin
       \/ /\ InstrumentNamedBy(CodeOfRow(a)).symbol # <<>>
          /\ InstrumentNamedBy(CodeOfRow(a)).symbol = InstrumentNamedBy(CodeOfRow(b)).symbol

\* C19: in compute_holdings, rows of one bucket and account that name the
\* same instrument by its ticker, its ISIN or a combined string have the same
\* key, so that they share one position of the ledger.
C19_OneKeyPerInstrument ==
    HoldingsReturned =>
        \A i, j \in 1..Len(txs) :
            SameInstrument(txs[i], txs[j]) =>
                /\ KeyOfRow(txs[i]) = KeyOfRow(txs[j])
                /\ KeyOfRow(txs[i]) \in DOMAIN LedgerOfRows

(***************************************************************************)
(* Properties of compute_holding_detail.                                   *)
(***************************************************************************)
DetailReturned == last.op = "compute_holding_detail" /\ last.exc = ""

DetailRefused == last.op = "compute_holding_detail" /\ last.exc = "HoldingNotFound"

KeyOfHolding(holding) ==
    MakePortfolioKey(holding.type_portefeuille, holding.symbol_or_isin,
                     TextOf(holding.account_id))

\* The identifier names the holding: by its composite identifier, by a code
\* with the bucket and the account it gives, or by the text of its code or
\* asset.
NamesHolding(identifier, holding) ==
    LET normalized == StripUpper(identifier)
        hints == ParseIdentifier(identifier)
    IN  \/ Upper(holding.identifier) = normalized
        \/ /\ hints[1] # <<>>
           /\ hints[1] = KeyOfHolding(holding)[2]
           /\ Truthy(hints[2]) => hints[2][1] = KeyOfHolding(holding)[1]
           /\ Truthy(hints[3]) => hints[3][1] = KeyOfHolding(holding)[3]
        \/ /\ normalized # <<>>
           /\ normalized \in {Upper(holding.symbol_or_isin), Upper(holding.asset)}

\* C21: compute_holding_detail returns a view only of a current holding that
\* the identifier names, and fails with HoldingNotFound for every identifier
\* that names no current holding (unknown code, empty or blank text, a bucket
\* without code, a position without open lots).
C21_DetailOnlyForMatch ==
    /\ DetailReturned =>
         /\ \E i \in 1..Len(last.holdings) : last.holdings[i] = last.val.holding
         /\ NamesHolding(last.identifier, last.val.holding)
    /\ (last.op = "compute_holding_detail" /\ last.exc \in {"", "HoldingNotFound"}
          /\ \A i \in 1..Len(last.holdings) : ~ NamesHolding(last.identifier, last.holdings[i]))
         => DetailRefused

\* The same without the identifiers that give no code.
DetailOnlyForMatchWithCode ==
    (DetailReturned /\ ParseIdentifier(last.identifier)[1] # <<>>) =>
        NamesHolding(last.identifier, last.val.holding)

\* C22: the rows that compute_holding_detail replays are the rows whose key
\* is the key of the matched holding, and no other row.
C22_OnlyRowsOfKey ==
    DetailReturned => last.val.tx_rows = RowsOfKey(KeyOfHolding(last.val.holding))

\* The position of key after the first n rows went through the pass of
\* compute_holdings.
PositionAfter(rows, n, key) ==
    CurrentPosition(ReplayTransactions(EmptyPass, SubSeq(rows, 1, n)).assets, key).position

\* C23: the history has one point per replayed row, in the order of the rows;
\* the quantity and the invested amount of each point are the position that
\* the pass of compute_holdings gives the key after the rows up to that
\* point, and those of the last point are those of the holding.
C23_HistoryFollowsLedger ==
    DetailReturned =>
        /\ Len(last.val.history) = Len(last.val.tx_rows)
        /\ \A n \in 1..Len(last.val.history) :
               /\ last.val.history[n].operation = Upper(last.val.tx_rows[n].operation)
               /\ <<last.val.history[n].quantity, last.val.history[n].invested_eur>>
                      = PositionAfter(last.val.tx_rows, n, KeyOfHolding(last.val.holding))
        /\ last.val.history # <<>>
        /\ last.val.history[Len(last.val.history)].quantity = last.val.holding.quantity
        /\ last.val.history[Len(last.val.history)].invested_eur = last.val.holding.invested_eur

\* The same when the replayed rows are the rows of the key of the holding.
HistoryFollowsLedgerOnOwnRows ==
    (DetailReturned /\ last.val.tx_rows = RowsOfKey(KeyOfHolding(last.val.holding))) =>
        C23_HistoryFollowsLedger

\* One point per replayed row, whatever the rows.
HistoryOnePointPerRow ==
    DetailReturned => Len(last.val.history) = Len(last.val.tx_rows)

(***************************************************************************)
(* Properties of the number of requests a price lookup makes.              *)
(***************************************************************************)
\* No endpoint was asked twice for the same text.
NoRepeatedRequest ==
    \A i, j \in 1..Len(world.calls) :
        (i # j) => <<world.calls[i].src, world.calls[i].arg>>
                       # <<world.calls[j].src, world.calls[j].arg>>

QuoteRequests ==
    {i \in 1..Len(world.calls) : world.calls[i].src \in {"yahoo_quote", "binance"}}

\* C24: within one get_market_price call no external source is asked twice
\* for the same thing: each Euronext candidate is fetched once, the equity
\* quote (or crypto) source is fetched at most once, and a search source is
\* queried at most once for an identifier.
C24_SingleAttempt ==
    PriceLooked =>
        /\ NoRepeatedRequest
        /\ Cardinality(QuoteRequests) <= 1

\* The part of it that concerns the price sources.
PriceSourcesAskedOnce ==
    PriceLooked =>
        /\ Cardinality(QuoteRequests) <= 1
        /\ \A i, j \in 1..Len(world.calls) :
               (i # j /\ world.calls[i].src = "euronext_price")
                   => world.calls[i].arg # world.calls[j].arg \/ world.calls[j].src # "euronext_price"

(***************************************************************************)
(* Properties of the CSV import.                                           *)
(***************************************************************************)
CsvRowsOf(csv) == {csv[i] : i \in 1..Len(csv)}

\* The last request imported a file that holds every row of the file
\* imported just before it.
Reimported ==
    /\ last.op = "import_csv"
    /\ last.exc = ""
    /\ last.previous # <<>>
    /\ CsvRowsOf(last.previous) \subseteq CsvRowsOf(last.csv)

SameFunctionalFields(t, u) ==
    /\ t.source = u.source
    /\ t.operation = u.operation
    /\ t.quantity = u.quantity

NoDuplicateTransaction(db) ==
    \A i, j \in 1..Len(db) :
        (i # j) => /\ db[i].transaction_uid # db[j].transaction_uid
                   /\ ~SameFunctionalFields(db[i], db[j])

UidsKept(before, after) ==
    \A i \in 1..Len(before) :
        /\ i <= Len(after)
        /\ after[i].pk = before[i].pk
        /\ after[i].transaction_uid = before[i].transaction_uid

OnlyUnmatchedAdded(before, after) ==
    \A j \in (Len(before) + 1)..Len(after) :
        \A i \in 1..Len(before) :
            /\ before[i].transaction_uid # after[j].transaction_uid
            /\ ~SameFunctionalFields(before[i], after[j])

ImportAddsNoDuplicate ==
    Reimported =>
        /\ NoDuplicateTransaction(txs)
        /\ OnlyUnmatchedAdded(last.before, txs)

\* The same file imported twice in a row.
ImportSameFileTwice ==
    (Reimported /\ last.previous = last.csv) => txs = last.before

(***************************************************************************)
(* Properties of the requests served concurrently.                         *)
(***************************************************************************)
\* A compute_holdings call returned that started while no mutation was
\* running and during which none started.
ReturnedAfterMutations ==
    /\ last.op = "compute_holdings"
    /\ last.exc = ""
    /\ last.clean

\* C26: once a mutation (import, update, delete, wipe) has returned, no
\* compute_holdings call that starts afterwards returns holdings computed from
\* the rows as they were before the mutation: a call in flight while the
\* mutation committed and cleared the memo, or one that ran between the clear
\* and the commit of a wipe, leaves no stale result in the memo.
C26_NoStaleHoldings ==
    ReturnedAfterMutations => ReflectsRows(last.val)

\* The same for the calls that ran the body themselves.
FreshWhenComputed ==
    (ReturnedAfterMutations /\ last.computed) => ReflectsRows(last.val)

(***************************************************************************)
(* Properties of the routing of sales.                                     *)
(***************************************************************************)
IsCurrencyCode(text) == Upper(Strip(text)) \in FIAT_CURRENCIES

\* The sale of a currency: its asset name or its symbol is a currency code.
IsCashSale(tx) ==
    /\ Upper(tx.operation) = <<"S", "E", "L", "L">>
    /\ IsCurrencyCode(tx.asset) \/ IsCurrencyCode(tx.symbol_or_isin)

\* The lots and the realized total that the rows give when exactly the sales
\* of a currency are cash movements and every other sale goes to the ledger.
RECURSIVE RoutedByCode(_, _)
RoutedByCode(p, rows) ==
    IF rows = <<>> THEN p
    ELSE LET tx == Head(rows)
             key == KeyOfRow(tx)
             operation == Upper(tx.operation)
             sold == Sell(p.assets, key, tx.quantity, tx.total_eur, tx.fee_eur)
         IN  RoutedByCode(
                 IF operation = <<"B", "U", "Y">>
                 THEN [p EXCEPT !.assets = Buy(@, key, tx.quantity,
                                               RAdd(tx.total_eur, tx.fee_eur))]
                 ELSE IF IsCashSale(tx)
                 THEN [p EXCEPT !.realized_total =
                                    RAdd(@, RSub(tx.total_eur, tx.fee_eur))]
                 ELSE IF operation = <<"S", "E", "L", "L">>
                 THEN [assets |-> sold.assets,
                       realized_total |-> RAdd(p.realized_total, sold.realized_pnl)]
                 ELSE IF operation = <<"D", "I", "V", "I", "D", "E", "N", "D">>
                 THEN [assets |-> Dividend(p.assets, key, RSub(tx.total_eur, tx.fee_eur)),
                       realized_total |-> RAdd(p.realized_total,
                                               RSub(tx.total_eur, tx.fee_eur))]
                 ELSE [p EXCEPT !.realized_total = RAdd(@, tx.total_eur)],
                 Tail(rows))

ExpectedByCode == RoutedByCode([assets |-> NoAssets, realized_total |-> RZero], txs)

\* The quantity that val shows for key, 0 when it shows no holding for it.
QuantityShown(val, key) ==
    IF \E i \in 1..Len(val.holdings) :
           val.holdings[i].identifier = BuildIdentifierFromKey(key)
    THEN val.holdings[CHOOSE i \in 1..Len(val.holdings) :
             val.holdings[i].identifier = BuildIdentifierFromKey(key)].quantity
    ELSE RZero

RoutedAsExpected(val) ==
    /\ val.totals.realized_pnl = ExpectedByCode.realized_total
    /\ \A key \in KeysOfRows :
           QuantityShown(val, key) = CurrentPosition(ExpectedByCode.assets, key).position[1]

\* C27: in compute_holdings a SELL is a pure cash movement (net amount added
\* to the realized P&L, no lot consumed) only when its asset name or symbol is
\* a currency code; the SELL of any other instrument, also of one whose name
\* holds the letters of a currency code inside a longer word, goes to the
\* ledger's sell and reduces the open lots of its position.
C27_CashOnlyForCurrency ==
    HoldingsReturned => RoutedAsExpected(last.val)

\* The same when no row has a name that holds a currency code inside a
\* longer word.
CashRoutingWithoutEmbeddedCode ==
    (/\ HoldingsReturned
     /\ \A i \in 1..Len(txs) :
            (ContainsFiatCode(Strip(txs[i].asset))
                 \/ ContainsFiatCode(Strip(txs[i].symbol_or_isin)))
            => (IsCurrencyCode(txs[i].asset) \/ IsCurrencyCode(txs[i].symbol_or_isin)))
    => RoutedAsExpected(last.val)

(***************************************************************************)
(* Properties of resolve_quote_symbol served concurrently.                 *)
(***************************************************************************)
NoCallRunning == \A t \in Workers : threads[t].pc = "idle"

\* The key under which a call for symbol stores the alias it learned.
AliasKeyOf(symbol) == NormalizedIdentifier(StripUpper(symbol))

\* C29: when two resolve_quote_symbol calls for different identifiers run
\* concurrently and each learns an alias through an external search, the
\* in-process alias map afterwards holds both aliases: the copy-then-replace
\* update of one call never discards the alias stored by the other.
C29_BothAliasesKept ==
    NoCallRunning =>
        \A symbol \in DOMAIN hist.learned :
            MapGet(world.quote_alias_cache.map, AliasKeyOf(symbol)) # <<>>

\* The call that returned last and stored a map finds its own alias in it.
OwnAliasKept ==
    (last.op = "resolve_quote_symbol" /\ last.exc = "" /\ last.stored) =>
        MapGet(world.quote_alias_cache.map, AliasKeyOf(last.symbol)) = last.val

(***************************************************************************)
(* Properties of the stale price across resolutions.                       *)
(***************************************************************************)
\* The last lookup was made for a pair that had been given a price before,
\* and every source it asked failed.
OwedLookup ==
    /\ PriceLooked
    /\ hist.owed # None
    /\ EverySourceFailed

\* C30: if get_market_price(code, bucket) once returned P, a later call with
\* the same code and bucket, made before the price-cache entry expires and
\* while every price source and every search source fails, returns P, also
\* when the alias map was invalidated or expired in between: the stale price
\* is found whatever quote key the code resolves to on the failing call.
C30_StaleAcrossResolutions ==
    OwedLookup => (last.exc = "" /\ last.val = hist.owed[1])

\* The same when the failing call resolves the code to the quote key under
\* which the price is cached.
StaleUnderSameKey ==
    (OwedLookup /\ last.cache_key \in DOMAIN last.cached)
    => (last.exc = "" /\ last.val = last.cached[last.cache_key])

====
